---- MODULE Spec2Model ----
(***************************************************************************)
(* Model of the data acquisition and reconciliation engine of              *)
(* project-stock-trading: the rate-limited, retrying, paginating API       *)
(* client (src/data/api_manager.py), the persistent store                  *)
(* (src/data/database.py) and the gap reconciler                           *)
(* (src/data/data_manager.py).                                             *)
(*                                                                         *)
(* The specifications of the module:                                       *)
(*   SpecAPI      APIManager._request, statement by statement, with the    *)
(*                wall clock, the request window, the log of requests sent *)
(*                and the response to the last of them;                    *)
(*   SpecBatch    APIManager._request_batch as the recursive function it   *)
(*                is, applied to bounded upstream resources;               *)
(*   Spec         download_trades / get_trades over the store, statement   *)
(*                by statement, with get_daily_trades computed by the same *)
(*                _request_batch operator;                                 *)
(*   SpecDates    get_open_dates over bounded holiday tables and clocks;   *)
(*   SpecCache    the memoized accessors of data_manager and their         *)
(*                lru caches, across a midnight;                           *)
(*   SpecFeatures FeatureManager.generate and Database.store_features;     *)
(*   SpecFit      utils.model_tuning.fit_multiple_parameters;              *)
(*   SpecTickers  exchange_for_ticker over the tickers table and its cache;*)
(*   SpecConn     the Database context manager (__enter__, __exit__,       *)
(*                __call__) over a server that comes and goes.             *)
(* In SpecBatch and Spec a _request call is taken by what it returns (a    *)
(* response or None); SpecAPI models the call itself.                      *)
(***************************************************************************)
EXTENDS Integers, Sequences, FiniteSets, TLC

\* ------------------------------------------------------------------------
\* Program constants of APIManager
\* ------------------------------------------------------------------------
MAX_REQUEST_PER_MINUTE == 200
STALL_TIME_UPON_MAX_REQUESTS == 3
MAX_ATTEMPTS == 5
\* the length of the trailing window of _count_recent_requests, in seconds
WINDOW == 60
\* time.sleep(5) before a retry
RETRY_DELAY == 5
\* get_daily_trades: trades_per_request, the limit it passes to _request_batch
trades_per_request == 50000

\* ------------------------------------------------------------------------
\* Bounds of the model
\* ------------------------------------------------------------------------
\* top-level _request calls start only while fewer requests than this were sent
MaxSent == 201
\* the wall clock may jump (idle time between two calls) only up to this time
MaxClock == 60
\* a flaky resource fails at most this many responses of each call
MaxFlaky == 4
\* records of one upstream resource (one ticker-day), and their timestamps 1..MaxTs
MaxRecords == 4
MaxTs == 3
\* page sizes 1..MaxLimit are tried by SpecBatch
MaxLimit == 3
\* depth at which the recursion of _request_batch is cut (Python raises
\* RecursionError at its recursion limit)
MaxPages == 6
\* the dates 0..MaxDay; date d falls on weekday d % 7, 0 being a Monday
MaxDay == 3
\* the one date of the holidays table
HolidayDate == 2
\* records the upstream API holds for a date with trades
TicksPerDay == 2

\* get_open_dates is applied to ranges of the dates 0..MaxCalDay (date 0 a
\* Monday, so that dates 5 and 6 are a weekend)
MaxCalDay == 7
\* rows of the holidays table
MaxHolidays == 1

\* the memoized accessors are called for the dates 0..MaxCacheDay
MaxCacheDay == 0

\* FeatureManager.generate is called for ranges of the dates 0..MaxFeatDay
MaxFeatDay == 1

\* parameter sets in list_of_params
MaxParams == 3

\* metadata fetches followed per ticker
MaxFetches == 2

\* Database operations followed
MaxOps == 4

VARIABLES
    \* ---- APIManager (SpecAPI)
    now,              \* time.time(), in seconds
    recent_requests,  \* APIManager._recent_requests
    sent,             \* the time of every HTTP request sent (requests.get), oldest first
    pc,               \* position of the running _request call
    attempts_left,    \* the attempts_left argument of the running _request frame
    n_sent,           \* HTTP requests sent by the current top-level _request call
    admit_from,       \* the time at which the current pass through the stall loop began
    stalls,           \* sleeps of the stall loop in the current pass
    ret,              \* what the last top-level _request call returned
    resource,         \* how the requested resource answers: "up", "flaky", "down"
    flaky_fails,      \* a flaky resource fails this many responses of a call, then succeeds
    last_response,    \* the response to the request just sent: status code and parsed body
    \* ---- APIManager._request_batch (SpecBatch)
    b_upstream,       \* the records the upstream resource holds, ordered by timestamp
    b_limit,          \* the limit argument
    b_fail_at,        \* the page request (1, 2, ..) whose _request returns None; 0: none does
    b_inclusive,      \* whether upstream includes the records at the cursor timestamp
    b_out,            \* the outcome of the _request_batch call, kind "pending" before it
    \* ---- the store (Database) and its environment
    holidays,         \* the holidays table of the ticker's exchange: date -> hours
    today,            \* the date of datetime.datetime.now()
    empty_date,       \* the date for which upstream holds no record (-1: none)
    summary,          \* the summary table: rows per (table_name, date)
    tables,           \* the trades and quotes tables: rows per (table, date), in insert order
    \* ---- data_manager: the running download_trades / get_trades call
    dm_pc,            \* position: "idle" (no call), "loop", "store", "insert", "read",
                      \* "returned" (get_trades returned), "raised" (an exception left it)
    data_type,        \* its data_type argument (one per run)
    date_from,        \* its date_from argument
    date_to,          \* its date_to argument
    dates_to_fetch,   \* what is left of dates_to_fetch in the for loop
    trades,           \* the frame get_daily_trades returned for the current date
    fetched,          \* the dates api.get_daily_trades was called for by this call, in order
    summary_before,   \* the summary table as it was when the call began
    insert_failed,    \* the date whose tick-row insert failed in this call (-1: none)
    returned,         \* what the get_trades call returned
    \* ---- get_open_dates as a function of the holidays table and the clock
    cal_holidays,     \* the holidays table: rows (exchange, date, hours)
    cal_now,          \* datetime.datetime.now(), in half days since the midnight that begins date 0
    cal_pc,           \* "idle", or "returned" when a get_open_dates call has returned
    cal_from,         \* its date_from argument
    cal_to,           \* its date_to argument
    exclude_future,   \* its exclude_future argument
    open_dates,       \* the list it returned
    \* ---- the memoized accessors of data_manager (SpecCache)
    lru,              \* the lru_cache of each memoized accessor: arguments -> entry
    c_stored,         \* the (date, data_type) with a summary row and tick rows in the store
    c_last,           \* the last accessor call: function, arguments, value returned
    \* ---- FeatureManager.generate and the feature tables (SpecFeatures)
    f_pc,             \* position of the generate call: "idle", "date", "feature", "values", "done", "raised"
    save_to_db,       \* its save_to_db argument
    dates_to_generate,\* what is left of dates_to_generate: (date, features to generate)
    f_todo,           \* the features still to generate for the date at hand
    dfs,              \* the features generated for the date at hand
    generated_features,\* the dates kept in memory (save_to_db False)
    feature_values_summary,\* the feature_values_summary table: rows (feature name, date)
    feature_values,   \* the stored feature values: (feature name, date)
    f_bad,            \* (feature, date) whose generated frame held NaN or inf in this call
    f_wrote,          \* (table, feature, date) written by this call
    \* ---- utils.model_tuning.fit_multiple_parameters (SpecFit)
    fit_pc,           \* position of the call: "idle", "loop", "fit", "done", "raised"
    skip_existing,    \* its skip_existing argument
    iteration,        \* the index of enumerate(list_of_params) the loop is at
    Xy,               \* the local Xy: "None" or "data"
    files,            \* the model files that exist in save_dir (their paths)
    get_Xy_calls,     \* calls of get_Xy made by this call
    fitted,           \* the paths this call fitted a model for and dumped it to
    files_before,     \* the model files that existed when the call began
    \* ---- exchange_for_ticker and the tickers table (SpecTickers)
    tickers,          \* the tickers table: per symbol, the exchanges of its rows in insertion order
    tk_cache,         \* the lru cache of exchange_for_ticker: per ticker "absent" or the value
    tk_fetches,       \* calls of api.get_ticker_details made, per ticker
    tk_last,          \* the last call of exchange_for_ticker: its ticker, how it ended, its value
    \* ---- the Database context manager (SpecConn)
    connection,       \* self._connection: "None" or "open"
    cursor,           \* self._cursor: none, or the open cursor and the options it was made with
    cursor_kwargs,    \* self._cursor_kwargs: the cursor options set
    db_pc,            \* position of the operation: "idle" or "body" (inside the with block)
    db_op,            \* the operation that runs or ran last
    db_ended,         \* how the last operation ended: "returned", "raised", "connect failed"
    server_up,        \* whether mysql.connector.connect can reach the server
    n_ops             \* operations begun

api_vars == <<now, recent_requests, sent, pc, attempts_left, n_sent, admit_from,
              stalls, ret, resource, flaky_fails, last_response>>

batch_vars == <<b_upstream, b_limit, b_fail_at, b_inclusive, b_out>>

env_vars == <<holidays, today, empty_date>>

store_vars == <<summary, tables>>

dm_vars == <<dm_pc, data_type, date_from, date_to, dates_to_fetch, trades, fetched,
             summary_before, insert_failed, returned>>

cal_vars == <<cal_holidays, cal_now, cal_pc, cal_from, cal_to, exclude_future, open_dates>>

\* the variables of the other components
cache_vars == <<lru, c_stored, c_last>>

feat_vars == <<f_pc, save_to_db, dates_to_generate, f_todo, dfs, generated_features, feature_values_summary, feature_values, f_bad, f_wrote>>

fit_vars == <<fit_pc, skip_existing, iteration, Xy, files, get_Xy_calls, fitted, files_before>>

tk_vars == <<tickers, tk_cache, tk_fetches, tk_last>>

conn_vars == <<connection, cursor, cursor_kwargs, db_pc, db_op, db_ended, server_up, n_ops>>

ext_vars == <<cal_vars, cache_vars, feat_vars, fit_vars, tk_vars, conn_vars>>

vars == <<now, recent_requests, sent, pc, attempts_left, n_sent, admit_from,
          stalls, ret, resource, flaky_fails, last_response,
          b_upstream, b_limit, b_fail_at, b_inclusive, b_out,
          holidays, today, empty_date, summary, tables,
          dm_pc, data_type, date_from, date_to, dates_to_fetch, trades, fetched,
          summary_before, insert_failed, returned,
          cal_holidays, cal_now, cal_pc, cal_from, cal_to, exclude_future, open_dates,
          lru, c_stored, c_last,
          f_pc, save_to_db, dates_to_generate, f_todo, dfs, generated_features, feature_values_summary, feature_values, f_bad, f_wrote,
          fit_pc, skip_existing, iteration, Xy, files, get_Xy_calls, fitted, files_before,
          tickers, tk_cache, tk_fetches, tk_last,
          connection, cursor, cursor_kwargs, db_pc, db_op, db_ended, server_up, n_ops>>

\* ------------------------------------------------------------------------
\* APIManager._request
\* ------------------------------------------------------------------------

\* _count_recent_requests: the window with the entries of the last minute kept
count_recent_requests(reqs, t) == SelectSeq(reqs, LAMBDA r : t - r < WINDOW)

\* the default of src/database/api_manager.py line 31: one attempt more
default_attempts_left_off_by_one == MAX_ATTEMPTS

\* attempts_left when the caller passes none
default_attempts_left == MAX_ATTEMPTS - 1

\* no response in hand
NoResponse == [status_code |-> 0, type |-> "none", success |-> "absent"]

\* the responses of the upstream API when it serves the request: a top-level
\* list, or an object without a success field or with success true
ServedResponses ==
    { [status_code |-> 200, type |-> "list", success |-> "absent"],
      [status_code |-> 200, type |-> "dict", success |-> "absent"],
      [status_code |-> 200, type |-> "dict", success |-> "true"] }

\* its responses when it does not: an error status, or an object with success false
FailedResponses ==
    { [status_code |-> 500, type |-> "none", success |-> "absent"],
      [status_code |-> 200, type |-> "dict", success |-> "false"] }

\* whether the resource fails the n-th request of the call
resource_fails(n) ==
    \/ resource = "down"
    \/ resource = "flaky" /\ n <= flaky_fails

\* json.get('success', True)
json_get_success(r) == IF r.success = "absent" THEN "true" ELSE r.success

\* the body is not looked at: every status 200 counts as a success
request_successful_by_status(r) == r.status_code = 200

\* `result.status_code == 200` and `type(json) == list or json.get('success', True)`
request_successful(r) ==
    /\ r.status_code = 200
    /\ r.type = "list" \/ json_get_success(r) = "true"

\* whether the response to the request just sent is a failure
\* (status other than 200, or 200 with success false)
response_fails == ~request_successful(last_response)

\* a top-level call, self._request(url), as get_upcoming_holidays and
\* get_ticker_details make it
request_call ==
    /\ UNCHANGED <<batch_vars, env_vars, store_vars, dm_vars, ext_vars>>
    /\ pc = "idle"
    /\ Len(sent) < MaxSent
    /\ pc' = "admit"
    /\ attempts_left' = default_attempts_left
    /\ n_sent' = 0
    /\ ret' = "pending"
    /\ admit_from' = now
    /\ stalls' = 0
    /\ UNCHANGED <<now, recent_requests, sent, resource, flaky_fails, last_response>>

\* one evaluation of the stall loop's condition: either one sleep of the loop,
\* or the loop is left and the request is sent. Nothing is added to
\* _recent_requests when the request is sent.
request_admit ==
    /\ UNCHANGED <<batch_vars, env_vars, store_vars, dm_vars, ext_vars>>
    /\ pc = "admit"
    /\ LET pruned == count_recent_requests(recent_requests, now) IN
       /\ recent_requests' = pruned
       /\ IF Len(pruned) >= MAX_REQUEST_PER_MINUTE
          THEN /\ now' = now + STALL_TIME_UPON_MAX_REQUESTS
               /\ stalls' = stalls + 1
               /\ UNCHANGED <<sent, pc, n_sent, last_response>>
          ELSE /\ sent' = Append(sent, now)
               /\ n_sent' = n_sent + 1
               /\ last_response' \in (IF resource_fails(n_sent + 1)
                                 THEN FailedResponses ELSE ServedResponses)
               /\ pc' = "response"
               /\ UNCHANGED <<now, stalls>>
    /\ UNCHANGED <<attempts_left, admit_from, ret, resource, flaky_fails>>

\* status 200 and a body that reports no failure: return json
request_return_json ==
    /\ UNCHANGED <<batch_vars, env_vars, store_vars, dm_vars, ext_vars>>
    /\ pc = "response"
    /\ ~response_fails
    /\ ret' = "json"
    /\ pc' = "idle"
    /\ last_response' = NoResponse
    /\ UNCHANGED <<now, recent_requests, sent, attempts_left, n_sent, admit_from,
                   stalls, resource, flaky_fails>>

\* no sleep before the retry
without_retry_delay(t) == t

\* time.sleep(5): the clock when the retry enters _request
after_retry_delay(t) == t + RETRY_DELAY

\* a failure with attempts left: sleep, then self._request(url, params, attempts_left-1)
request_retry ==
    /\ UNCHANGED <<batch_vars, env_vars, store_vars, dm_vars, ext_vars>>
    /\ pc = "response"
    /\ response_fails
    /\ attempts_left > 0
    /\ now' = after_retry_delay(now)
    /\ attempts_left' = attempts_left - 1
    /\ pc' = "admit"
    /\ admit_from' = after_retry_delay(now)
    /\ stalls' = 0
    /\ last_response' = NoResponse
    /\ UNCHANGED <<recent_requests, sent, n_sent, ret, resource, flaky_fails>>

\* a failure with no attempt left: the function falls off its end, returning None
request_give_up ==
    /\ UNCHANGED <<batch_vars, env_vars, store_vars, dm_vars, ext_vars>>
    /\ pc = "response"
    /\ response_fails
    /\ attempts_left = 0
    /\ ret' = "None"
    /\ pc' = "idle"
    /\ last_response' = NoResponse
    /\ UNCHANGED <<now, recent_requests, sent, attempts_left, n_sent, admit_from,
                   stalls, resource, flaky_fails>>

\* wall-clock time passing between two calls: one full window
elapse ==
    /\ UNCHANGED <<batch_vars, env_vars, store_vars, dm_vars, ext_vars>>
    /\ pc = "idle"
    /\ now + WINDOW <= MaxClock
    /\ now' = now + WINDOW
    /\ UNCHANGED <<recent_requests, sent, pc, attempts_left, n_sent, admit_from,
                   stalls, ret, resource, flaky_fails, last_response>>

NextAPI ==
    \/ request_call
    \/ request_admit
    \/ request_return_json
    \/ request_retry
    \/ request_give_up
    \/ elapse


\* ------------------------------------------------------------------------
\* APIManager._request_batch
\* ------------------------------------------------------------------------

\* the upstream resources tried: up to MaxRecords records, ordered by timestamp;
\* a record is its timestamp t and its place i in the resource
Timestamps == 1..MaxTs

IsOrdered(ts) == \A k \in 1..(Len(ts) - 1) : ts[k] <= ts[k + 1]

OrderedTimestamps ==
    { q \in UNION { [1..n -> Timestamps] : n \in 0..MaxRecords } : IsOrdered(q) }

Upstreams == { [k \in 1..Len(q) |-> [t |-> q[k], i |-> k]] : q \in OrderedTimestamps }

\* the first n elements of a sequence
Take(s, n) == SubSeq(s, 1, IF n < Len(s) THEN n ELSE Len(s))

\* s without its first n elements: s[n:]
Drop(s, n) == SubSeq(s, n + 1, Len(s))

\* the 'results' of one page: the first `limit` records from the cursor on.
\* Cursor 0 precedes every record.
upstream_page(up, timestamp, limit, inclusive) ==
    Take(SelectSeq(up, LAMBDA r : IF inclusive THEN r.t >= timestamp ELSE r.t > timestamp),
         limit)

Outcome(kind, result, requests, pages) ==
    [kind |-> kind, result |-> result, requests |-> requests, pages |-> pages]

\* one page of a batch as the call saw it: the cursor it asked from, the
\* 'results' of the response and what of them went into the result
Page(timestamp, results, kept) ==
    [timestamp |-> timestamp, results |-> results, kept |-> kept]

\* the slice keeps the first item on every page
skip_none(timestamp) == 0

\* int(timestamp > 0): the start of the slice of response['results']
skip_first(timestamp) == IF timestamp > 0 THEN 1 ELSE 0

\* _request_batch(url, limit, timestamp), page_no counting the frames of the
\* recursion. kind is "list" (a return value), "None", or the exception raised.
RECURSIVE request_batch(_, _, _, _, _, _)
request_batch(up, limit, timestamp, fail_at, inclusive, page_no) ==
    IF page_no > MaxPages THEN Outcome("RecursionError", << >>, 0, << >>)
    ELSE IF fail_at = page_no THEN Outcome("None", << >>, 1, << >>)
    ELSE
    LET response == upstream_page(up, timestamp, limit, inclusive)
        results_count == Len(response)
        result == Drop(response, skip_first(timestamp))
        page == <<Page(timestamp, response, result)>>
    IN  IF result = << >> THEN Outcome("IndexError", << >>, 1, page)
        ELSE IF results_count >= limit
        THEN LET rest == request_batch(up, limit, result[Len(result)].t,
                                       fail_at, inclusive, page_no + 1)
             IN  IF rest.kind = "list"
                 THEN Outcome("list", result \o rest.result, 1 + rest.requests,
                              page \o rest.pages)
                 ELSE IF rest.kind = "None"
                 THEN Outcome("TypeError", << >>, 1 + rest.requests, page \o rest.pages)
                 ELSE Outcome(rest.kind, << >>, 1 + rest.requests, page \o rest.pages)
        ELSE Outcome("list", result, 1, page)

\* one call self._request_batch(url, limit)
request_batch_call ==
    /\ b_out.kind = "pending"
    /\ b_out' = request_batch(b_upstream, b_limit, 0, b_fail_at, b_inclusive, 1)
    /\ UNCHANGED <<b_upstream, b_limit, b_fail_at, b_inclusive>>
    /\ UNCHANGED <<api_vars, env_vars, store_vars, dm_vars, ext_vars>>

NextBatch == request_batch_call


\* ------------------------------------------------------------------------
\* The calendar and the upstream API, as the store and the reconciler see them
\* ------------------------------------------------------------------------
Days == 0..MaxDay

DataTypes == {"trades", "quotes"}

\* the ascending list of the elements of a finite set of integers
RECURSIVE SortedSeq(_)
SortedSeq(S) ==
    IF S = {} THEN << >>
    ELSE LET m == CHOOSE x \in S : \A y \in S : x <= y
         IN  <<m>> \o SortedSeq(S \ {m})

\* the elements of a sequence
Range(s) == { s[k] : k \in 1..Len(s) }

\* the records upstream holds for a date: none for the empty date, or else
\* TicksPerDay records with distinct, increasing positive timestamps
upstream_records(date) ==
    IF date = empty_date THEN << >>
    ELSE [k \in 1..TicksPerDay |-> [t |-> date * TicksPerDay + k, i |-> k]]

\* get_daily_trades: the frame built from what _request_batch returns, with
\* the kept keys renamed; fail_at is the page request that ends in None.
\* A None makes pd.DataFrame(None)[keys_to_keep] raise KeyError.
get_daily_trades(date, fail_at) ==
    LET batch == request_batch(upstream_records(date), trades_per_request, 0,
                               fail_at, TRUE, 1)
    IN  IF batch.kind = "list"
        THEN [kind |-> "frame",
              rows |-> [k \in 1..Len(batch.result) |->
                          [timestamp |-> batch.result[k].t, price |-> batch.result[k].i]]]
        ELSE IF batch.kind = "None"
        THEN [kind |-> "KeyError", rows |-> << >>]
        ELSE [kind |-> batch.kind, rows |-> << >>]

\* ------------------------------------------------------------------------
\* Database
\* ------------------------------------------------------------------------

\* get_stored_dates(table, ticker): the dates of the summary rows of a table
get_stored_dates(table) == { d \in Days : summary[<<table, d>>] > 0 }

\* Database.get_trades(ticker, date, datatype): the rows of the date, the
\* timestamp converted to a time of day in America/New_York
db_get_trades(date, datatype) ==
    [k \in 1..Len(tables[<<datatype, date>>]) |->
        [time |-> <<"America/New_York", tables[<<datatype, date>>][k].timestamp>>,
         price |-> tables[<<datatype, date>>][k].price]]

\* ------------------------------------------------------------------------
\* data_manager
\* ------------------------------------------------------------------------

\* get_open_dates with the dates in descending order
get_open_dates_descending(from, to) ==
    LET up == SortedSeq({ d \in from..to :
                            d % 7 < 5 /\ holidays[d] # "closed" /\ today - d > 0 })
    IN  [k \in 1..Len(up) |-> up[Len(up) + 1 - k]]

\* get_open_dates(ticker, date_from, date_to) with exclude_future left True
get_open_dates(from, to) ==
    SortedSeq({ d \in from..to :
                  /\ d % 7 < 5
                  /\ holidays[d] # "closed"
                  /\ today - d > 0 })

\* dates_missing_from_database finding nothing to fetch
dates_missing_none(from, to, type) == << >>

\* dates_missing_from_database with the filter lost: every open date is fetched
dates_missing_ignoring_stored(from, to, type) == get_open_dates(from, to)

\* dates_missing_from_database(ticker, date_from, date_to, data_type)
dates_missing_from_database(from, to, type) ==
    SelectSeq(get_open_dates(from, to), LAMBDA d : d \notin get_stored_dates(type))

\* a call get_trades(ticker, date_from, date_to, data_type), which calls
\* download_trades at once: dates_to_fetch is computed
get_trades_call ==
    /\ dm_pc = "idle"
    /\ \E from \in Days, to \in Days :
        /\ from <= to
        /\ date_from' = from
        /\ date_to' = to
        /\ dates_to_fetch' = dates_missing_from_database(from, to, data_type)
    /\ dm_pc' = "loop"
    /\ UNCHANGED data_type
    /\ trades' = << >>
    /\ fetched' = << >>
    /\ summary_before' = summary
    /\ insert_failed' = -1
    /\ returned' = [kind |-> "pending", rows |-> << >>]
    /\ UNCHANGED <<api_vars, batch_vars, env_vars, store_vars, ext_vars>>

\* api.get_daily_trades(ticker, date, data_type) returns a frame
get_daily_trades_returns ==
    /\ dm_pc = "loop"
    /\ dates_to_fetch # << >>
    /\ \E fail_at \in {0, 1} :
        LET frame == get_daily_trades(Head(dates_to_fetch), fail_at) IN
        /\ frame.kind = "frame"
        /\ trades' = frame.rows
    /\ fetched' = Append(fetched, Head(dates_to_fetch))
    /\ dm_pc' = "store"
    /\ UNCHANGED <<data_type, date_from, date_to, dates_to_fetch, summary_before,
                   insert_failed, returned>>
    /\ UNCHANGED <<api_vars, batch_vars, env_vars, store_vars, ext_vars>>

\* api.get_daily_trades raises: the exception leaves download_trades and its caller
get_daily_trades_raises ==
    /\ dm_pc = "loop"
    /\ dates_to_fetch # << >>
    /\ \E fail_at \in {0, 1} :
        get_daily_trades(Head(dates_to_fetch), fail_at).kind # "frame"
    /\ fetched' = Append(fetched, Head(dates_to_fetch))
    /\ dm_pc' = "raised"
    /\ UNCHANGED <<data_type, date_from, date_to, dates_to_fetch, trades,
                   summary_before, insert_failed, returned>>
    /\ UNCHANGED <<api_vars, batch_vars, env_vars, store_vars, ext_vars>>

\* store_trades, first statements: _get_ticker_id, then _store_summary inserts
\* the summary row (autocommit)
store_summary ==
    /\ dm_pc = "store"
    /\ summary' = [summary EXCEPT ![<<data_type, Head(dates_to_fetch)>>] = @ + 1]
    /\ dm_pc' = "insert"
    /\ UNCHANGED <<data_type, date_from, date_to, dates_to_fetch, trades, fetched,
                   summary_before, insert_failed, returned>>
    /\ UNCHANGED <<api_vars, batch_vars, env_vars, tables, ext_vars>>

\* _store_summary raises (the connection or the insert fails): nothing is written
store_summary_raises ==
    /\ dm_pc = "store"
    /\ dm_pc' = "raised"
    /\ UNCHANGED <<data_type, date_from, date_to, dates_to_fetch, trades, fetched,
                   summary_before, insert_failed, returned>>
    /\ UNCHANGED <<api_vars, batch_vars, env_vars, store_vars, ext_vars>>

\* store_trades, last statement: executemany inserts the tick rows; the for
\* loop of download_trades goes on to the next date
insert_trades ==
    /\ dm_pc = "insert"
    /\ tables' = [tables EXCEPT ![<<data_type, Head(dates_to_fetch)>>] = @ \o trades]
    /\ dates_to_fetch' = Tail(dates_to_fetch)
    /\ dm_pc' = "loop"
    /\ UNCHANGED <<data_type, date_from, date_to, trades, fetched,
                   summary_before, insert_failed, returned>>
    /\ UNCHANGED <<api_vars, batch_vars, env_vars, summary, ext_vars>>

\* executemany raises: some of the rows, not all, may have been written
insert_trades_raises ==
    /\ dm_pc = "insert"
    /\ \E written \in 0..(Len(trades) - 1) :
        tables' = [tables EXCEPT ![<<data_type, Head(dates_to_fetch)>>] =
                       @ \o SubSeq(trades, 1, written)]
    /\ insert_failed' = Head(dates_to_fetch)
    /\ dm_pc' = "raised"
    /\ UNCHANGED <<data_type, date_from, date_to, dates_to_fetch, trades, fetched,
                   summary_before, returned>>
    /\ UNCHANGED <<api_vars, batch_vars, env_vars, summary, ext_vars>>

\* download_trades returns (nothing to fetch, or the loop is over) to get_trades
download_trades_returns ==
    /\ dm_pc = "loop"
    /\ dates_to_fetch = << >>
    /\ dm_pc' = "read"
    /\ UNCHANGED <<data_type, date_from, date_to, dates_to_fetch, trades, fetched,
                   summary_before, insert_failed, returned>>
    /\ UNCHANGED <<api_vars, batch_vars, env_vars, store_vars, ext_vars>>

\* the concatenation of the per-date reads of a list of dates
RECURSIVE concat_trades(_, _)
concat_trades(dates, type) ==
    IF dates = << >> THEN << >>
    ELSE db_get_trades(Head(dates), type) \o concat_trades(Tail(dates), type)

\* get_trades after download_trades returned: None when no date of the range
\* is open, else the reads of the open dates, concatenated
get_trades_returns ==
    /\ dm_pc = "read"
    /\ returned' = IF get_open_dates(date_from, date_to) = << >>
                 THEN [kind |-> "None", rows |-> << >>]
                 ELSE [kind |-> "frame",
                       rows |-> concat_trades(get_open_dates(date_from, date_to), data_type)]
    /\ dm_pc' = "returned"
    /\ UNCHANGED <<data_type, date_from, date_to, dates_to_fetch, trades, fetched,
                   summary_before, insert_failed>>
    /\ UNCHANGED <<api_vars, batch_vars, env_vars, store_vars, ext_vars>>

\* the call is over: its value or its exception is with the caller and its
\* locals are gone
call_ends ==
    /\ dm_pc \in {"returned", "raised"}
    /\ dm_pc' = "idle"
    /\ date_from' = 0
    /\ date_to' = 0
    /\ dates_to_fetch' = << >>
    /\ trades' = << >>
    /\ fetched' = << >>
    /\ summary_before' = summary
    /\ insert_failed' = -1
    /\ returned' = [kind |-> "pending", rows |-> << >>]
    /\ UNCHANGED data_type
    /\ UNCHANGED <<api_vars, batch_vars, env_vars, store_vars, ext_vars>>

Next ==
    \/ get_trades_call
    \/ get_daily_trades_returns
    \/ get_daily_trades_raises
    \/ store_summary
    \/ store_summary_raises
    \/ insert_trades
    \/ insert_trades_raises
    \/ download_trades_returns
    \/ get_trades_returns
    \/ call_ends

\* ------------------------------------------------------------------------
\* get_open_dates, on its own (SpecDates)
\* ------------------------------------------------------------------------
CalDays == 0..MaxCalDay

Exchanges == {"NYSE", "NASDAQ"}

\* exchange_for_ticker(ticker): the exchange of the ticker of the calls
ticker_exchange == "NYSE"

\* the rows a holidays table may hold
HolidayRows == [exchange : Exchanges, date : CalDays, hours : {"closed", "half"}]

\* the holidays tables of at most n rows
RECURSIVE TablesUpTo(_)
TablesUpTo(n) ==
    IF n = 0 THEN { {} }
    ELSE TablesUpTo(n - 1) \union
         { t \union {r} : t \in TablesUpTo(n - 1), r \in HolidayRows }

HolidayTables == TablesUpTo(MaxHolidays)

\* Database.get_holidays(exchange, date_from, date_to): (date, hours) of the
\* rows of the exchange within the range
get_holidays(table, exchange, from, to) ==
    { <<r.date, r.hours>> :
        r \in { x \in table : x.exchange = exchange /\ x.date >= from /\ x.date <= to } }

\* date.weekday() with the week starting a day late (Sunday is 0)
weekday_from_sunday(date) == (date + 6) % 7

\* date.weekday(): Monday is 0 and Sunday is 6
weekday(date) == date % 7

\* (datetime.datetime.now() - date).days: whole days, rounded down, from the
\* midnight that begins the date to now
days_since(now_, date) == (now_ - 2 * date) \div 2

\* the for loop of get_open_dates over pd.date_range(date, date_to)
RECURSIVE open_dates_loop(_, _, _, _, _)
open_dates_loop(date, to, closed, now_, excl) ==
    IF date > to THEN << >>
    ELSE (IF weekday(date) >= 5 THEN << >>
          ELSE IF date \in closed THEN << >>
          ELSE IF excl /\ days_since(now_, date) <= 0 THEN << >>
          ELSE <<date>>)
         \o open_dates_loop(date + 1, to, closed, now_, excl)

\* get_open_dates(ticker, date_from, date_to, exclude_future), evaluated
open_dates_of(table, now_, from, to, excl) ==
    LET rows == get_holidays(table, ticker_exchange, from, to)
        closed == { h[1] : h \in { x \in rows : x[2] = "closed" } }
    IN  open_dates_loop(from, to, closed, now_, excl)

\* a call get_open_dates(ticker, date_from, date_to, exclude_future) is
\* evaluated and returns
get_open_dates_call ==
    /\ cal_pc = "idle"
    /\ \E from \in CalDays, to \in CalDays, excl \in BOOLEAN :
        /\ from <= to
        /\ cal_from' = from
        /\ cal_to' = to
        /\ exclude_future' = excl
        /\ open_dates' = open_dates_of(cal_holidays, cal_now, from, to, excl)
    /\ cal_pc' = "returned"
    /\ UNCHANGED <<cal_holidays, cal_now>>
    /\ UNCHANGED <<api_vars, batch_vars, env_vars, store_vars, dm_vars, cache_vars, feat_vars, fit_vars, tk_vars, conn_vars>>

\* the caller has the list
get_open_dates_done ==
    /\ cal_pc = "returned"
    /\ cal_pc' = "idle"
    /\ cal_from' = 0
    /\ cal_to' = 0
    /\ exclude_future' = TRUE
    /\ open_dates' = << >>
    /\ UNCHANGED <<cal_holidays, cal_now>>
    /\ UNCHANGED <<api_vars, batch_vars, env_vars, store_vars, dm_vars, cache_vars, feat_vars, fit_vars, tk_vars, conn_vars>>

\* half a day goes by between two calls
half_day_passes ==
    /\ cal_pc = "idle"
    /\ cal_now < 2 * (MaxCalDay + 1) + 1
    /\ cal_now' = cal_now + 1
    /\ UNCHANGED <<cal_holidays, cal_pc, cal_from, cal_to, exclude_future, open_dates>>
    /\ UNCHANGED <<api_vars, batch_vars, env_vars, store_vars, dm_vars, cache_vars, feat_vars, fit_vars, tk_vars, conn_vars>>

NextDates ==
    \/ get_open_dates_call
    \/ get_open_dates_done
    \/ half_day_passes

\* ------------------------------------------------------------------------
\* The memoized accessors (SpecCache). The holidays table and the clock are
\* cal_holidays and cal_now; a frame is known by its columns, and a cache
\* entry holds the object it was given, so a later change of that object
\* shows in the entry.
\* ------------------------------------------------------------------------
CacheDays == 0..MaxCacheDay

CacheRanges == { r \in CacheDays \X CacheDays : r[1] <= r[2] }

Absent == [kind |-> "absent"]

Cached(v) == [kind |-> "value", value |-> v]

\* every cache empty
EmptyLru ==
    [exchange_for_ticker |-> Absent,
     get_open_dates      |-> [r \in CacheRanges |-> Absent],
     get_trading_hours   |-> [d \in CacheDays |-> Absent],
     get_trades          |-> [k \in CacheDays \X DataTypes |-> Absent],
     get_quotes          |-> [d \in CacheDays |-> Absent],
     get_bars            |-> [k \in CacheDays \X DataTypes |-> Absent]]

\* the columns of a frame Database.get_trades returns
BaseColumns(type) ==
    IF type = "trades" THEN {"time", "price", "volume"}
    ELSE {"time", "ask_price", "ask_volume", "bid_price", "bid_volume"}

\* the result of a call: the caches and the store after it, and its value
Result(l, stored, value) == [lru |-> l, stored |-> stored, value |-> value]

\* exchange_for_ticker(ticker)
lru_exchange_for_ticker(l, stored) ==
    IF l.exchange_for_ticker.kind = "value"
    THEN Result(l, stored, l.exchange_for_ticker.value)
    ELSE Result([l EXCEPT !.exchange_for_ticker = Cached(ticker_exchange)],
                stored, ticker_exchange)

\* the body of get_open_dates, ex being what exchange_for_ticker gave
get_open_dates_body(ex, from, to) ==
    Result([ex.lru EXCEPT !.get_open_dates[<<from, to>>] =
                Cached(open_dates_of(cal_holidays, cal_now, from, to, TRUE))],
           ex.stored,
           open_dates_of(cal_holidays, cal_now, from, to, TRUE))

\* get_open_dates(ticker, date_from, date_to)
lru_get_open_dates(l, stored, from, to) ==
    IF l.get_open_dates[<<from, to>>].kind = "value"
    THEN Result(l, stored, l.get_open_dates[<<from, to>>].value)
    ELSE get_open_dates_body(lru_exchange_for_ticker(l, stored), from, to)

\* (open_time, close_time) in minutes of the day, regular trading hours
trading_hours(half_day) == <<9 * 60 + 30, (IF half_day THEN 13 ELSE 16) * 60>>

\* the body of get_trading_hours, ex being what exchange_for_ticker gave
get_trading_hours_body(ex, date) ==
    Result([ex.lru EXCEPT !.get_trading_hours[date] =
                Cached(trading_hours(<<date, "half">> \in
                          get_holidays(cal_holidays, ex.value, 0, MaxCalDay)))],
           ex.stored,
           trading_hours(<<date, "half">> \in
                            get_holidays(cal_holidays, ex.value, 0, MaxCalDay)))

\* get_trading_hours(ticker, date)
lru_get_trading_hours(l, stored, date) ==
    IF l.get_trading_hours[date].kind = "value"
    THEN Result(l, stored, l.get_trading_hours[date].value)
    ELSE get_trading_hours_body(lru_exchange_for_ticker(l, stored), date)

\* what get_trades returns for the open dates it found: None for none, or
\* else the frame read from the store
trades_value(dates, type) ==
    IF dates = << >> THEN [kind |-> "None"]
    ELSE [kind |-> "frame", columns |-> BaseColumns(type)]

\* the body of get_trades, od being what get_open_dates gave: download_trades
\* stores the open dates that are missing, then the open dates are read
get_trades_body(od, date, type) ==
    Result([od.lru EXCEPT !.get_trades[<<date, type>>] =
                Cached(trades_value(od.value, type))],
           od.stored \union { <<d, type>> : d \in Range(od.value) },
           trades_value(od.value, type))

\* get_trades(ticker, date, data_type=type)
lru_get_trades(l, stored, date, type) ==
    IF l.get_trades[<<date, type>>].kind = "value"
    THEN Result(l, stored, l.get_trades[<<date, type>>].value)
    ELSE get_trades_body(lru_get_open_dates(l, stored, date, date), date, type)

\* a frame with one more column: the object itself is changed
with_column(frame, column) ==
    [kind |-> "frame", columns |-> frame.columns \union {column}]

\* the body of get_quotes, q being what get_trades gave: that frame gets the
\* column `spread` and is returned; None has no columns (TypeError)
get_quotes_body(q, date) ==
    IF q.value.kind = "None"
    THEN Result(q.lru, q.stored, [kind |-> "TypeError"])
    ELSE Result([q.lru EXCEPT
                    !.get_trades[<<date, "quotes">>] = Cached(with_column(q.value, "spread")),
                    !.get_quotes[date] = Cached(with_column(q.value, "spread"))],
                q.stored,
                with_column(q.value, "spread"))

\* get_quotes(ticker, date)
lru_get_quotes(l, stored, date) ==
    IF l.get_quotes[date].kind = "value"
    THEN Result(l, stored, l.get_quotes[date].value)
    ELSE get_quotes_body(lru_get_trades(l, stored, date, "quotes"), date)

\* the bars of a frame: its columns but `time`, over the trading hours
bars_of(frame, hours) ==
    [kind |-> "bars", columns |-> frame.columns \ {"time"}, hours |-> hours]

\* the end of get_bars, h being what get_trading_hours gave
get_bars_reindex(h, frame, date, type) ==
    Result([h.lru EXCEPT !.get_bars[<<date, type>>] = Cached(bars_of(frame, h.value))],
           h.stored,
           bars_of(frame, h.value))

\* the body of get_bars for trades, t being what get_trades gave: that frame
\* gets the column `dollar_volume` before it is grouped
get_bars_of_trades(t, date) ==
    IF t.value.kind = "None"
    THEN Result(t.lru, t.stored, [kind |-> "TypeError"])
    ELSE get_bars_reindex(
            lru_get_trading_hours(
                [t.lru EXCEPT !.get_trades[<<date, "trades">>] =
                                  Cached(with_column(t.value, "dollar_volume"))],
                t.stored, date),
            with_column(t.value, "dollar_volume"), date, "trades")

\* the body of get_bars for quotes, q being what get_quotes gave
get_bars_of_quotes(q, date) ==
    IF q.value.kind # "frame"
    THEN Result(q.lru, q.stored, [kind |-> "TypeError"])
    ELSE get_bars_reindex(lru_get_trading_hours(q.lru, q.stored, date),
                          q.value, date, "quotes")

\* get_bars(ticker, date, data_type=type)
lru_get_bars(l, stored, date, type) ==
    IF l.get_bars[<<date, type>>].kind = "value"
    THEN Result(l, stored, l.get_bars[<<date, type>>].value)
    ELSE IF type = "trades"
    THEN get_bars_of_trades(lru_get_trades(l, stored, date, "trades"), date)
    ELSE get_bars_of_quotes(lru_get_quotes(l, stored, date), date)

\* the consumer calls exchange_for_ticker(ticker)
cached_exchange_for_ticker ==
    /\ \E r \in {lru_exchange_for_ticker(lru, c_stored)} :
        /\ lru' = r.lru
        /\ c_stored' = r.stored
        /\ c_last' = [fn |-> "exchange_for_ticker", args |-> << >>, value |-> r.value]
    /\ UNCHANGED cal_vars
    /\ UNCHANGED <<api_vars, batch_vars, env_vars, store_vars, dm_vars, feat_vars, fit_vars, tk_vars, conn_vars>>

\* the consumer calls get_open_dates(ticker, date_from, date_to)
cached_get_open_dates ==
    /\ \E rg \in CacheRanges :
        \E r \in {lru_get_open_dates(lru, c_stored, rg[1], rg[2])} :
            /\ lru' = r.lru
            /\ c_stored' = r.stored
            /\ c_last' = [fn |-> "get_open_dates", args |-> rg, value |-> r.value]
    /\ UNCHANGED cal_vars
    /\ UNCHANGED <<api_vars, batch_vars, env_vars, store_vars, dm_vars, feat_vars, fit_vars, tk_vars, conn_vars>>

\* the consumer calls get_trading_hours(ticker, date)
cached_get_trading_hours ==
    /\ \E d \in CacheDays :
        \E r \in {lru_get_trading_hours(lru, c_stored, d)} :
            /\ lru' = r.lru
            /\ c_stored' = r.stored
            /\ c_last' = [fn |-> "get_trading_hours", args |-> <<d>>, value |-> r.value]
    /\ UNCHANGED cal_vars
    /\ UNCHANGED <<api_vars, batch_vars, env_vars, store_vars, dm_vars, feat_vars, fit_vars, tk_vars, conn_vars>>

\* the consumer calls get_trades(ticker, date, data_type=type)
cached_get_trades ==
    /\ \E d \in CacheDays, type \in DataTypes :
        \E r \in {lru_get_trades(lru, c_stored, d, type)} :
            /\ lru' = r.lru
            /\ c_stored' = r.stored
            /\ c_last' = [fn |-> "get_trades", args |-> <<d, type>>, value |-> r.value]
    /\ UNCHANGED cal_vars
    /\ UNCHANGED <<api_vars, batch_vars, env_vars, store_vars, dm_vars, feat_vars, fit_vars, tk_vars, conn_vars>>

\* the consumer calls get_quotes(ticker, date)
cached_get_quotes ==
    /\ \E d \in CacheDays :
        \E r \in {lru_get_quotes(lru, c_stored, d)} :
            /\ lru' = r.lru
            /\ c_stored' = r.stored
            /\ c_last' = [fn |-> "get_quotes", args |-> <<d>>, value |-> r.value]
    /\ UNCHANGED cal_vars
    /\ UNCHANGED <<api_vars, batch_vars, env_vars, store_vars, dm_vars, feat_vars, fit_vars, tk_vars, conn_vars>>

\* the consumer calls get_bars(ticker, date, data_type=type)
cached_get_bars ==
    /\ \E d \in CacheDays, type \in DataTypes :
        \E r \in {lru_get_bars(lru, c_stored, d, type)} :
            /\ lru' = r.lru
            /\ c_stored' = r.stored
            /\ c_last' = [fn |-> "get_bars", args |-> <<d, type>>, value |-> r.value]
    /\ UNCHANGED cal_vars
    /\ UNCHANGED <<api_vars, batch_vars, env_vars, store_vars, dm_vars, feat_vars, fit_vars, tk_vars, conn_vars>>

\* calls with other arguments fill a bounded cache and its least recently
\* used entry goes: any entry of a bounded cache may
lru_evicts ==
    /\ \/ \E r \in CacheRanges :
            /\ lru.get_open_dates[r].kind = "value"
            /\ lru' = [lru EXCEPT !.get_open_dates[r] = Absent]
       \/ \E d \in CacheDays :
            /\ lru.get_trading_hours[d].kind = "value"
            /\ lru' = [lru EXCEPT !.get_trading_hours[d] = Absent]
       \/ \E k \in CacheDays \X DataTypes :
            /\ lru.get_trades[k].kind = "value"
            /\ lru' = [lru EXCEPT !.get_trades[k] = Absent]
       \/ \E d \in CacheDays :
            /\ lru.get_quotes[d].kind = "value"
            /\ lru' = [lru EXCEPT !.get_quotes[d] = Absent]
       \/ \E k \in CacheDays \X DataTypes :
            /\ lru.get_bars[k].kind = "value"
            /\ lru' = [lru EXCEPT !.get_bars[k] = Absent]
    /\ UNCHANGED <<c_stored, c_last>>
    /\ UNCHANGED cal_vars
    /\ UNCHANGED <<api_vars, batch_vars, env_vars, store_vars, dm_vars, feat_vars, fit_vars, tk_vars, conn_vars>>

\* midnight: the date of now is the next one (the value of the last call is
\* with its caller by then)
day_passes ==
    /\ cal_now \div 2 <= MaxCacheDay
    /\ cal_now' = cal_now + 2
    /\ c_last' = [fn |-> "none"]
    /\ UNCHANGED <<cal_holidays, cal_pc, cal_from, cal_to, exclude_future, open_dates>>
    /\ UNCHANGED <<lru, c_stored>>
    /\ UNCHANGED <<api_vars, batch_vars, env_vars, store_vars, dm_vars, feat_vars, fit_vars, tk_vars, conn_vars>>

NextCache ==
    \/ cached_exchange_for_ticker
    \/ cached_get_open_dates
    \/ cached_get_trading_hours
    \/ cached_get_trades
    \/ cached_get_quotes
    \/ cached_get_bars
    \/ lru_evicts
    \/ day_passes

\* ------------------------------------------------------------------------
\* FeatureManager.generate and Database.store_features (SpecFeatures). The
\* calendar is cal_holidays and cal_now. generate passes store_features no
\* date (src/features/feature_manager.py:129) while store_features takes one
\* (src/data/database.py:310): the call is taken to store for the date of the
\* loop, or to raise.
\* ------------------------------------------------------------------------
FeatDays == 0..MaxFeatDay

\* the features there are, in the order they are added
FeatureNames == <<"ma", "ma_long">>

\* self.features of a FeatureManager: the features add() registered, some or
\* all of them
RegisteredFeatures == { <<"ma">>, <<"ma_long">>, FeatureNames }

\* name LIKE "{feature}%"
name_like(name, feature) ==
    \/ name = feature
    \/ name = "ma_long" /\ feature = "ma"

\* what a feature function may return: a clean frame, one with a NaN, one
\* with an infinite value
FrameKinds == {"clean", "nan", "inf"}

\* df.replace([np.inf, -np.inf], np.nan) left out
keep_inf(frame) == frame

\* df.replace([np.inf, -np.inf], np.nan)
replace_inf(frame) == IF frame = "inf" THEN "nan" ELSE frame

\* df.isna().to_numpy().sum() after the replacement, for a frame with one bad value
nan_counts(frame) == IF replace_inf(frame) = "nan" THEN 1 ELSE 0

\* Database.get_stored_dates_for_feature(ticker, feature)
get_stored_dates_for_feature(feature) ==
    { r[2] : r \in { x \in feature_values_summary : name_like(x[1], feature) } }

\* dates_missing_from_database(ticker, date_from, date_to, feature_name)
dates_missing_for_feature(from, to, feature) ==
    SelectSeq(open_dates_of(cal_holidays, cal_now, from, to, TRUE),
              LAMBDA d : d \notin get_stored_dates_for_feature(feature))

\* the features to generate for a date: those for which it is missing, or,
\* without skip_stored, all
features_for(registered, date, from, to, skip_stored) ==
    SelectSeq(registered,
              LAMBDA f : ~skip_stored \/ date \in Range(dates_missing_for_feature(from, to, f)))

\* dates_to_generate: the open dates with a feature to generate, each with its features
dates_to_generate_of(registered, from, to, skip_stored) ==
    LET open == open_dates_of(cal_holidays, cal_now, from, to, TRUE)
        rows == [k \in 1..Len(open) |->
                    [date |-> open[k],
                     features |-> features_for(registered, open[k], from, to, skip_stored)]]
    IN  SelectSeq(rows, LAMBDA row : row.features # << >>)

feat_frame == <<api_vars, batch_vars, env_vars, store_vars, dm_vars, cal_vars,
                cache_vars, fit_vars, tk_vars, conn_vars>>

\* a call generate(date_from, date_to, save_to_db, skip_stored)
generate_call ==
    /\ f_pc = "idle"
    /\ \E registered \in RegisteredFeatures, from \in FeatDays, to \in FeatDays,
          save \in BOOLEAN, skip_stored \in BOOLEAN :
        /\ from <= to
        /\ save_to_db' = save
        /\ dates_to_generate' = dates_to_generate_of(registered, from, to, skip_stored)
    /\ f_pc' = "date"
    /\ f_todo' = << >>
    /\ dfs' = << >>
    /\ generated_features' = << >>
    /\ f_bad' = {}
    /\ f_wrote' = {}
    /\ UNCHANGED <<feature_values_summary, feature_values>>
    /\ UNCHANGED feat_frame

\* the outer for loop takes the next date
next_date ==
    /\ f_pc = "date"
    /\ dates_to_generate # << >>
    /\ f_todo' = Head(dates_to_generate).features
    /\ dfs' = << >>
    /\ f_pc' = "feature"
    /\ UNCHANGED <<save_to_db, dates_to_generate, generated_features,
                   feature_values_summary, feature_values, f_bad, f_wrote>>
    /\ UNCHANGED feat_frame

\* the inner for loop generates a feature whose frame passes the assertion
generate_feature ==
    /\ f_pc = "feature"
    /\ f_todo # << >>
    /\ \E frame \in FrameKinds :
        /\ nan_counts(frame) = 0
        /\ f_bad' = IF frame = "clean" THEN f_bad
                    ELSE f_bad \union {<<Head(f_todo), Head(dates_to_generate).date>>}
    /\ dfs' = Append(dfs, Head(f_todo))
    /\ f_todo' = Tail(f_todo)
    /\ UNCHANGED <<f_pc, save_to_db, dates_to_generate, generated_features,
                   feature_values_summary, feature_values, f_wrote>>
    /\ UNCHANGED feat_frame

\* the inner for loop generates a feature whose frame fails the assertion:
\* AssertionError leaves generate
generate_feature_asserts ==
    /\ f_pc = "feature"
    /\ f_todo # << >>
    /\ \E frame \in FrameKinds :
        /\ nan_counts(frame) # 0
        /\ f_bad' = f_bad \union {<<Head(f_todo), Head(dates_to_generate).date>>}
    /\ f_pc' = "raised"
    /\ UNCHANGED <<save_to_db, dates_to_generate, f_todo, dfs, generated_features,
                   feature_values_summary, feature_values, f_wrote>>
    /\ UNCHANGED feat_frame

\* the inner loop is over when no feature of the date is left
features_done(todo) == todo = << >>

\* store_features, first part: the feature names, then the
\* feature_values_summary rows of the columns of df_final
store_features_summary ==
    /\ f_pc = "feature"
    /\ features_done(f_todo)
    /\ dfs # << >>
    /\ save_to_db
    /\ feature_values_summary' = feature_values_summary \union
          { <<f, Head(dates_to_generate).date>> : f \in Range(dfs) }
    /\ f_wrote' = f_wrote \union
          { <<"feature_values_summary", f, Head(dates_to_generate).date>> : f \in Range(dfs) }
    /\ f_pc' = "values"
    /\ UNCHANGED <<save_to_db, dates_to_generate, f_todo, dfs, generated_features,
                   feature_values, f_bad>>
    /\ UNCHANGED feat_frame

\* store_features, last part: the values go to the pickle or to feature_values;
\* the outer loop goes on
store_features_values ==
    /\ f_pc = "values"
    /\ feature_values' = feature_values \union
          { <<f, Head(dates_to_generate).date>> : f \in Range(dfs) }
    /\ f_wrote' = f_wrote \union
          { <<"feature_values", f, Head(dates_to_generate).date>> : f \in Range(dfs) }
    /\ dates_to_generate' = Tail(dates_to_generate)
    /\ f_pc' = "date"
    /\ UNCHANGED <<save_to_db, f_todo, dfs, generated_features,
                   feature_values_summary, f_bad>>
    /\ UNCHANGED feat_frame

\* store_features raises: at the call, or at one of its statements
store_features_raises ==
    /\ \/ f_pc = "feature" /\ features_done(f_todo) /\ dfs # << >> /\ save_to_db
       \/ f_pc = "values"
    /\ f_pc' = "raised"
    /\ UNCHANGED <<save_to_db, dates_to_generate, f_todo, dfs, generated_features,
                   feature_values_summary, feature_values, f_bad, f_wrote>>
    /\ UNCHANGED feat_frame

\* save_to_db is False: df_final is kept in generated_features
keep_features ==
    /\ f_pc = "feature"
    /\ features_done(f_todo)
    /\ dfs # << >>
    /\ ~save_to_db
    /\ generated_features' = Append(generated_features, Head(dates_to_generate).date)
    /\ dates_to_generate' = Tail(dates_to_generate)
    /\ f_pc' = "date"
    /\ UNCHANGED <<save_to_db, f_todo, dfs, feature_values_summary, feature_values,
                   f_bad, f_wrote>>
    /\ UNCHANGED feat_frame

\* the outer loop is over: generate returns
generate_returns ==
    /\ f_pc = "date"
    /\ dates_to_generate = << >>
    /\ f_pc' = "done"
    /\ UNCHANGED <<save_to_db, dates_to_generate, f_todo, dfs, generated_features,
                   feature_values_summary, feature_values, f_bad, f_wrote>>
    /\ UNCHANGED feat_frame

\* the call is over: its locals are gone
generate_ends ==
    /\ f_pc \in {"done", "raised"}
    /\ f_pc' = "idle"
    /\ save_to_db' = TRUE
    /\ dates_to_generate' = << >>
    /\ f_todo' = << >>
    /\ dfs' = << >>
    /\ generated_features' = << >>
    /\ f_bad' = {}
    /\ f_wrote' = {}
    /\ UNCHANGED <<feature_values_summary, feature_values>>
    /\ UNCHANGED feat_frame

NextFeatures ==
    \/ generate_call
    \/ next_date
    \/ generate_feature
    \/ generate_feature_asserts
    \/ store_features_summary
    \/ store_features_values
    \/ store_features_raises
    \/ keep_features
    \/ generate_returns
    \/ generate_ends

\* ------------------------------------------------------------------------
\* utils.model_tuning.fit_multiple_parameters (SpecFit)
\* ------------------------------------------------------------------------

\* list_of_params: parameter sets, two of them equal
list_of_params == [k \in 1..MaxParams |-> [alpha |-> k % 2]]

\* model_path: f'{iteration}_{serialize(params)}.pkl' in save_dir
model_path(i) == <<i, list_of_params[i + 1].alpha>>

ModelPaths == { model_path(i) : i \in 0..(MaxParams - 1) }

\* `if Xy is None` left out: the data is fetched for every model
always_fetch(xy) == TRUE

\* `if Xy is None`
Xy_is_None(xy) == xy = "None"

fit_frame == <<api_vars, batch_vars, env_vars, store_vars, dm_vars, cal_vars,
               cache_vars, feat_vars, tk_vars, conn_vars>>

\* a call fit_multiple_parameters(base_model, get_Xy, list_of_params, save_dir,
\* skip_existing)
fit_call ==
    /\ fit_pc = "idle"
    /\ skip_existing' \in BOOLEAN
    /\ fit_pc' = "loop"
    /\ iteration' = 0
    /\ Xy' = "None"
    /\ get_Xy_calls' = 0
    /\ fitted' = {}
    /\ files_before' = files
    /\ UNCHANGED files
    /\ UNCHANGED fit_frame

\* `if skip_existing and os.path.exists(model_path): continue`
fit_skips ==
    /\ fit_pc = "loop"
    /\ iteration < MaxParams
    /\ skip_existing /\ model_path(iteration) \in files
    /\ iteration' = iteration + 1
    /\ UNCHANGED <<fit_pc, skip_existing, Xy, files, get_Xy_calls, fitted, files_before>>
    /\ UNCHANGED fit_frame

\* `if Xy is None: Xy = get_Xy()`
fit_fetches ==
    /\ fit_pc = "loop"
    /\ iteration < MaxParams
    /\ ~(skip_existing /\ model_path(iteration) \in files)
    /\ IF Xy_is_None(Xy)
       THEN Xy' = "data" /\ get_Xy_calls' = get_Xy_calls + 1
       ELSE UNCHANGED <<Xy, get_Xy_calls>>
    /\ fit_pc' = "fit"
    /\ UNCHANGED <<skip_existing, iteration, files, fitted, files_before>>
    /\ UNCHANGED fit_frame

\* get_Xy raises: the exception leaves the call
fit_fetch_raises ==
    /\ fit_pc = "loop"
    /\ iteration < MaxParams
    /\ ~(skip_existing /\ model_path(iteration) \in files)
    /\ Xy_is_None(Xy)
    /\ get_Xy_calls' = get_Xy_calls + 1
    /\ fit_pc' = "raised"
    /\ UNCHANGED <<skip_existing, iteration, Xy, files, fitted, files_before>>
    /\ UNCHANGED fit_frame

\* base_model(**params), model.fit(*Xy), joblib.dump(model, model_path)
fit_dumps ==
    /\ fit_pc = "fit"
    /\ files' = files \union {model_path(iteration)}
    /\ fitted' = fitted \union {model_path(iteration)}
    /\ iteration' = iteration + 1
    /\ fit_pc' = "loop"
    /\ UNCHANGED <<skip_existing, Xy, get_Xy_calls, files_before>>
    /\ UNCHANGED fit_frame

\* base_model or model.fit raises: no file is written
fit_raises ==
    /\ fit_pc = "fit"
    /\ fit_pc' = "raised"
    /\ UNCHANGED <<skip_existing, iteration, Xy, files, get_Xy_calls, fitted, files_before>>
    /\ UNCHANGED fit_frame

\* the loop is over: the call returns
fit_returns ==
    /\ fit_pc = "loop"
    /\ iteration = MaxParams
    /\ fit_pc' = "done"
    /\ UNCHANGED <<skip_existing, iteration, Xy, files, get_Xy_calls, fitted, files_before>>
    /\ UNCHANGED fit_frame

\* the call is over: its locals are gone
fit_ends ==
    /\ fit_pc \in {"done", "raised"}
    /\ fit_pc' = "idle"
    /\ skip_existing' = TRUE
    /\ iteration' = 0
    /\ Xy' = "None"
    /\ get_Xy_calls' = 0
    /\ fitted' = {}
    /\ files_before' = files
    /\ UNCHANGED files
    /\ UNCHANGED fit_frame

NextFit ==
    \/ fit_call
    \/ fit_skips
    \/ fit_fetches
    \/ fit_fetch_raises
    \/ fit_dumps
    \/ fit_raises
    \/ fit_returns
    \/ fit_ends

\* ------------------------------------------------------------------------
\* exchange_for_ticker and the tickers table (SpecTickers)
\* ------------------------------------------------------------------------

Symbols == {"AAPL", "MSFT"}

\* the lookup finds nothing, whatever the table holds
get_ticker_details_nothing(table, ticker) == [kind |-> "None", exchange |-> "none"]

\* Database.get_ticker_details: `details[0] if details else None`
db_get_ticker_details(table, ticker) ==
    IF table[ticker] = << >> THEN [kind |-> "None", exchange |-> "none"]
    ELSE [kind |-> "row", exchange |-> table[ticker][1]]

\* Database.store_ticker_details: the INSERT of details['exchangeSymbol']
\* under details['symbol']
store_ticker_details(table, ticker, exchange) ==
    [table EXCEPT ![ticker] = Append(@, exchange)]

tk_frame == <<api_vars, batch_vars, env_vars, store_vars, dm_vars, cal_vars,
              cache_vars, feat_vars, fit_vars, conn_vars>>

\* exchange_for_ticker(ticker) with the value in the cache: the body is not run
exchange_cached ==
    /\ \E t \in Symbols :
        /\ tk_cache[t] # "absent"
        /\ tk_last' = [ticker |-> t, outcome |-> "cached", value |-> tk_cache[t]]
    /\ UNCHANGED <<tickers, tk_cache, tk_fetches>>
    /\ UNCHANGED tk_frame

\* the body finds the ticker row: no fetch, the exchange is returned and cached
exchange_stored ==
    /\ \E t \in Symbols :
        /\ tk_cache[t] = "absent"
        /\ db_get_ticker_details(tickers, t).kind = "row"
        /\ tk_cache' = [tk_cache EXCEPT ![t] = db_get_ticker_details(tickers, t).exchange]
        /\ tk_last' = [ticker |-> t, outcome |-> "stored",
                       value |-> db_get_ticker_details(tickers, t).exchange]
    /\ UNCHANGED <<tickers, tk_fetches>>
    /\ UNCHANGED tk_frame

\* the body finds no row: api.get_ticker_details answers, the row is inserted,
\* read back and its exchange returned and cached
exchange_fetched ==
    /\ \E t \in Symbols, exchange \in Exchanges :
        /\ tk_cache[t] = "absent"
        /\ db_get_ticker_details(tickers, t).kind = "None"
        /\ tk_fetches[t] < MaxFetches
        /\ tk_fetches' = [tk_fetches EXCEPT ![t] = @ + 1]
        /\ tickers' = store_ticker_details(tickers, t, exchange)
        /\ \E row \in {db_get_ticker_details(store_ticker_details(tickers, t, exchange), t)} :
            /\ tk_cache' = [tk_cache EXCEPT ![t] = row.exchange]
            /\ tk_last' = [ticker |-> t, outcome |-> "fetched", value |-> row.exchange]
    /\ UNCHANGED tk_frame

\* the body finds no row and api.get_ticker_details returns None:
\* store_ticker_details(None) raises TypeError at details['symbol']; or the
\* fetch answers and the INSERT raises. Nothing is written, nothing cached.
exchange_raises ==
    /\ \E t \in Symbols :
        /\ tk_cache[t] = "absent"
        /\ db_get_ticker_details(tickers, t).kind = "None"
        /\ tk_fetches[t] < MaxFetches
        /\ tk_fetches' = [tk_fetches EXCEPT ![t] = @ + 1]
        /\ tk_last' = [ticker |-> t, outcome |-> "raised", value |-> "none"]
    /\ UNCHANGED <<tickers, tk_cache>>
    /\ UNCHANGED tk_frame

\* a new process imports data_manager: the caches are empty, the table stays
process_restarts ==
    /\ \E t \in Symbols : tk_cache[t] # "absent"
    /\ tk_cache' = [t \in Symbols |-> "absent"]
    /\ tk_last' = [ticker |-> "none", outcome |-> "none", value |-> "none"]
    /\ UNCHANGED <<tickers, tk_fetches>>
    /\ UNCHANGED tk_frame

NextTickers ==
    \/ exchange_cached
    \/ exchange_stored
    \/ exchange_fetched
    \/ exchange_raises
    \/ process_restarts

\* ------------------------------------------------------------------------
\* The Database context manager (SpecConn)
\* ------------------------------------------------------------------------

\* the operations of Database: each opens its own `with self` block
Operations == {"_get_ticker_id", "get_stored_dates", "store_ticker_details",
               "get_ticker_details"}

\* the cursor options an operation asks for through __call__:
\* get_ticker_details enters `with self(dictionary=True)`, the others `with self`
options_of(op) == IF op = "get_ticker_details" THEN {"dictionary"} ELSE {}

\* no cursor
NoCursor == [state |-> "None", options |-> {}]

\* self._cursor_kwargs as the operation's with statement leaves it before
\* __enter__: __call__(**kwargs) assigns it, a plain `with self` does not
with_self(kwargs, op) == IF op = "get_ticker_details" THEN options_of(op) ELSE kwargs

conn_frame == <<api_vars, batch_vars, env_vars, store_vars, dm_vars, cal_vars,
                cache_vars, feat_vars, fit_vars, tk_vars>>

\* an operation enters its with block: __call__ if any, then __enter__ connects
\* and makes the cursor with self._cursor_kwargs
op_enters ==
    /\ db_pc = "idle"
    /\ n_ops < MaxOps
    /\ server_up
    /\ \E op \in Operations :
        /\ db_op' = op
        /\ cursor_kwargs' = with_self(cursor_kwargs, op)
        /\ cursor' = [state |-> "open", options |-> with_self(cursor_kwargs, op)]
    /\ connection' = "open"
    /\ db_pc' = "body"
    /\ n_ops' = n_ops + 1
    /\ UNCHANGED <<db_ended, server_up>>
    /\ UNCHANGED conn_frame

\* mysql.connector.connect raises in __enter__: the with block is not
\* entered and __exit__ is not called
op_connect_fails ==
    /\ db_pc = "idle"
    /\ n_ops < MaxOps
    /\ ~server_up
    /\ \E op \in Operations :
        /\ db_op' = op
        /\ cursor_kwargs' = with_self(cursor_kwargs, op)
    /\ db_ended' = "connect failed"
    /\ n_ops' = n_ops + 1
    /\ UNCHANGED <<connection, cursor, db_pc, server_up>>
    /\ UNCHANGED conn_frame

\* the with block is left, normally or by an exception of its body: __exit__
\* closes cursor and connection and clears the options
op_exits ==
    /\ db_pc = "body"
    /\ db_ended' \in {"returned", "raised"}
    /\ cursor' = NoCursor
    /\ connection' = "None"
    /\ cursor_kwargs' = {}
    /\ db_pc' = "idle"
    /\ UNCHANGED <<db_op, server_up, n_ops>>
    /\ UNCHANGED conn_frame

\* the server goes away or comes back between two operations
server_changes ==
    /\ db_pc = "idle"
    /\ server_up' = ~server_up
    /\ UNCHANGED <<connection, cursor, cursor_kwargs, db_pc, db_op, db_ended, n_ops>>
    /\ UNCHANGED conn_frame

NextConn ==
    \/ op_enters
    \/ op_connect_fails
    \/ op_exits
    \/ server_changes

\* ------------------------------------------------------------------------
\* Specifications
\* ------------------------------------------------------------------------

\* Spec: the store is empty and no call is running; the calendar and the
\* upstream data are any of the bounded ones. _request is not the subject.
Init ==
    /\ now = 0
    /\ recent_requests = << >>
    /\ sent = << >>
    /\ pc = "idle"
    /\ attempts_left = 0
    /\ n_sent = 0
    /\ admit_from = 0
    /\ stalls = 0
    /\ ret = "none"
    /\ resource = "up"
    /\ flaky_fails = 0
    /\ last_response = NoResponse
    /\ b_upstream = << >>
    /\ b_limit = 1
    /\ b_fail_at = 0
    /\ b_inclusive = TRUE
    /\ b_out = [kind |-> "pending", result |-> << >>, requests |-> 0, pages |-> << >>]
    /\ holidays \in { [d \in Days |-> IF d = HolidayDate THEN h ELSE "open"] :
                        h \in {"open", "closed", "half"} }
    /\ today = MaxDay + 1
    /\ empty_date \in {-1, 1}
    /\ summary = [key \in DataTypes \X Days |-> 0]
    /\ tables = [key \in DataTypes \X Days |-> << >>]
    /\ dm_pc = "idle"
    /\ data_type \in DataTypes
    /\ date_from = 0
    /\ date_to = 0
    /\ dates_to_fetch = << >>
    /\ trades = << >>
    /\ fetched = << >>
    /\ summary_before = summary
    /\ insert_failed = -1
    /\ returned = [kind |-> "pending", rows |-> << >>]
    /\ cal_holidays = {}
    /\ cal_now = 0
    /\ cal_pc = "idle"
    /\ cal_from = 0
    /\ cal_to = 0
    /\ exclude_future = TRUE
    /\ open_dates = << >>
    /\ lru = EmptyLru
    /\ c_stored = {}
    /\ c_last = [fn |-> "none"]
    /\ f_pc = "idle"
    /\ save_to_db = TRUE
    /\ dates_to_generate = << >>
    /\ f_todo = << >>
    /\ dfs = << >>
    /\ generated_features = << >>
    /\ feature_values_summary = {}
    /\ feature_values = {}
    /\ f_bad = {}
    /\ f_wrote = {}
    /\ fit_pc = "idle"
    /\ skip_existing = TRUE
    /\ iteration = 0
    /\ Xy = "None"
    /\ files = {}
    /\ get_Xy_calls = 0
    /\ fitted = {}
    /\ files_before = {}
    /\ tickers = [t \in {"AAPL", "MSFT"} |-> << >>]
    /\ tk_cache = [t \in {"AAPL", "MSFT"} |-> "absent"]
    /\ tk_fetches = [t \in {"AAPL", "MSFT"} |-> 0]
    /\ tk_last = [ticker |-> "none", outcome |-> "none", value |-> "none"]
    /\ connection = "None"
    /\ cursor = [state |-> "None", options |-> {}]
    /\ cursor_kwargs = {}
    /\ db_pc = "idle"
    /\ db_op = "none"
    /\ db_ended = "none"
    /\ server_up = TRUE
    /\ n_ops = 0

Spec == Init /\ [][Next]_vars

\* SpecAPI: no request was sent yet; the resource answers in one of the bounded ways
InitAPI ==
    /\ now = 0
    /\ recent_requests = << >>
    /\ sent = << >>
    /\ pc = "idle"
    /\ attempts_left = 0
    /\ n_sent = 0
    /\ admit_from = 0
    /\ stalls = 0
    /\ ret = "none"
    /\ resource \in {"up", "flaky", "down"}
    /\ flaky_fails \in (IF resource = "flaky" THEN 1..MaxFlaky ELSE {0})
    /\ last_response = NoResponse
    /\ b_upstream = << >>
    /\ b_limit = 1
    /\ b_fail_at = 0
    /\ b_inclusive = TRUE
    /\ b_out = [kind |-> "pending", result |-> << >>, requests |-> 0, pages |-> << >>]
    /\ holidays = [d \in Days |-> "open"]
    /\ today = MaxDay + 1
    /\ empty_date = -1
    /\ summary = [key \in DataTypes \X Days |-> 0]
    /\ tables = [key \in DataTypes \X Days |-> << >>]
    /\ dm_pc = "idle"
    /\ data_type = "trades"
    /\ date_from = 0
    /\ date_to = 0
    /\ dates_to_fetch = << >>
    /\ trades = << >>
    /\ fetched = << >>
    /\ summary_before = summary
    /\ insert_failed = -1
    /\ returned = [kind |-> "pending", rows |-> << >>]
    /\ cal_holidays = {}
    /\ cal_now = 0
    /\ cal_pc = "idle"
    /\ cal_from = 0
    /\ cal_to = 0
    /\ exclude_future = TRUE
    /\ open_dates = << >>
    /\ lru = EmptyLru
    /\ c_stored = {}
    /\ c_last = [fn |-> "none"]
    /\ f_pc = "idle"
    /\ save_to_db = TRUE
    /\ dates_to_generate = << >>
    /\ f_todo = << >>
    /\ dfs = << >>
    /\ generated_features = << >>
    /\ feature_values_summary = {}
    /\ feature_values = {}
    /\ f_bad = {}
    /\ f_wrote = {}
    /\ fit_pc = "idle"
    /\ skip_existing = TRUE
    /\ iteration = 0
    /\ Xy = "None"
    /\ files = {}
    /\ get_Xy_calls = 0
    /\ fitted = {}
    /\ files_before = {}
    /\ tickers = [t \in {"AAPL", "MSFT"} |-> << >>]
    /\ tk_cache = [t \in {"AAPL", "MSFT"} |-> "absent"]
    /\ tk_fetches = [t \in {"AAPL", "MSFT"} |-> 0]
    /\ tk_last = [ticker |-> "none", outcome |-> "none", value |-> "none"]
    /\ connection = "None"
    /\ cursor = [state |-> "None", options |-> {}]
    /\ cursor_kwargs = {}
    /\ db_pc = "idle"
    /\ db_op = "none"
    /\ db_ended = "none"
    /\ server_up = TRUE
    /\ n_ops = 0

SpecAPI == InitAPI /\ [][NextAPI]_vars

\* SpecBatch: the inputs of one _request_batch call are any of the bounded ones
InitBatch ==
    /\ now = 0
    /\ recent_requests = << >>
    /\ sent = << >>
    /\ pc = "idle"
    /\ attempts_left = 0
    /\ n_sent = 0
    /\ admit_from = 0
    /\ stalls = 0
    /\ ret = "none"
    /\ resource = "up"
    /\ flaky_fails = 0
    /\ last_response = NoResponse
    /\ b_upstream \in Upstreams
    /\ b_limit \in 1..MaxLimit
    /\ b_fail_at \in 0..MaxPages
    /\ b_inclusive \in BOOLEAN
    /\ b_out = [kind |-> "pending", result |-> << >>, requests |-> 0, pages |-> << >>]
    /\ holidays = [d \in Days |-> "open"]
    /\ today = MaxDay + 1
    /\ empty_date = -1
    /\ summary = [key \in DataTypes \X Days |-> 0]
    /\ tables = [key \in DataTypes \X Days |-> << >>]
    /\ dm_pc = "idle"
    /\ data_type = "trades"
    /\ date_from = 0
    /\ date_to = 0
    /\ dates_to_fetch = << >>
    /\ trades = << >>
    /\ fetched = << >>
    /\ summary_before = summary
    /\ insert_failed = -1
    /\ returned = [kind |-> "pending", rows |-> << >>]
    /\ cal_holidays = {}
    /\ cal_now = 0
    /\ cal_pc = "idle"
    /\ cal_from = 0
    /\ cal_to = 0
    /\ exclude_future = TRUE
    /\ open_dates = << >>
    /\ lru = EmptyLru
    /\ c_stored = {}
    /\ c_last = [fn |-> "none"]
    /\ f_pc = "idle"
    /\ save_to_db = TRUE
    /\ dates_to_generate = << >>
    /\ f_todo = << >>
    /\ dfs = << >>
    /\ generated_features = << >>
    /\ feature_values_summary = {}
    /\ feature_values = {}
    /\ f_bad = {}
    /\ f_wrote = {}
    /\ fit_pc = "idle"
    /\ skip_existing = TRUE
    /\ iteration = 0
    /\ Xy = "None"
    /\ files = {}
    /\ get_Xy_calls = 0
    /\ fitted = {}
    /\ files_before = {}
    /\ tickers = [t \in {"AAPL", "MSFT"} |-> << >>]
    /\ tk_cache = [t \in {"AAPL", "MSFT"} |-> "absent"]
    /\ tk_fetches = [t \in {"AAPL", "MSFT"} |-> 0]
    /\ tk_last = [ticker |-> "none", outcome |-> "none", value |-> "none"]
    /\ connection = "None"
    /\ cursor = [state |-> "None", options |-> {}]
    /\ cursor_kwargs = {}
    /\ db_pc = "idle"
    /\ db_op = "none"
    /\ db_ended = "none"
    /\ server_up = TRUE
    /\ n_ops = 0

SpecBatch == InitBatch /\ [][NextBatch]_vars

\* SpecDates: any bounded holidays table; the clock starts at the midnight
\* that begins date 0
InitDates ==
    /\ now = 0
    /\ recent_requests = << >>
    /\ sent = << >>
    /\ pc = "idle"
    /\ attempts_left = 0
    /\ n_sent = 0
    /\ admit_from = 0
    /\ stalls = 0
    /\ ret = "none"
    /\ resource = "up"
    /\ flaky_fails = 0
    /\ last_response = NoResponse
    /\ b_upstream = << >>
    /\ b_limit = 1
    /\ b_fail_at = 0
    /\ b_inclusive = TRUE
    /\ b_out = [kind |-> "pending", result |-> << >>, requests |-> 0, pages |-> << >>]
    /\ holidays = [d \in Days |-> "open"]
    /\ today = MaxDay + 1
    /\ empty_date = -1
    /\ summary = [key \in DataTypes \X Days |-> 0]
    /\ tables = [key \in DataTypes \X Days |-> << >>]
    /\ dm_pc = "idle"
    /\ data_type = "trades"
    /\ date_from = 0
    /\ date_to = 0
    /\ dates_to_fetch = << >>
    /\ trades = << >>
    /\ fetched = << >>
    /\ summary_before = summary
    /\ insert_failed = -1
    /\ returned = [kind |-> "pending", rows |-> << >>]
    /\ cal_holidays \in HolidayTables
    /\ cal_now = 0
    /\ cal_pc = "idle"
    /\ cal_from = 0
    /\ cal_to = 0
    /\ exclude_future = TRUE
    /\ open_dates = << >>
    /\ lru = EmptyLru
    /\ c_stored = {}
    /\ c_last = [fn |-> "none"]
    /\ f_pc = "idle"
    /\ save_to_db = TRUE
    /\ dates_to_generate = << >>
    /\ f_todo = << >>
    /\ dfs = << >>
    /\ generated_features = << >>
    /\ feature_values_summary = {}
    /\ feature_values = {}
    /\ f_bad = {}
    /\ f_wrote = {}
    /\ fit_pc = "idle"
    /\ skip_existing = TRUE
    /\ iteration = 0
    /\ Xy = "None"
    /\ files = {}
    /\ get_Xy_calls = 0
    /\ fitted = {}
    /\ files_before = {}
    /\ tickers = [t \in {"AAPL", "MSFT"} |-> << >>]
    /\ tk_cache = [t \in {"AAPL", "MSFT"} |-> "absent"]
    /\ tk_fetches = [t \in {"AAPL", "MSFT"} |-> 0]
    /\ tk_last = [ticker |-> "none", outcome |-> "none", value |-> "none"]
    /\ connection = "None"
    /\ cursor = [state |-> "None", options |-> {}]
    /\ cursor_kwargs = {}
    /\ db_pc = "idle"
    /\ db_op = "none"
    /\ db_ended = "none"
    /\ server_up = TRUE
    /\ n_ops = 0

SpecDates == InitDates /\ [][NextDates]_vars

\* SpecCache: every cache is empty and nothing is stored; date 0 is today or
\* yesterday, an ordinary day, a half day or a closed holiday of the exchange
InitCache ==
    /\ now = 0
    /\ recent_requests = << >>
    /\ sent = << >>
    /\ pc = "idle"
    /\ attempts_left = 0
    /\ n_sent = 0
    /\ admit_from = 0
    /\ stalls = 0
    /\ ret = "none"
    /\ resource = "up"
    /\ flaky_fails = 0
    /\ last_response = NoResponse
    /\ b_upstream = << >>
    /\ b_limit = 1
    /\ b_fail_at = 0
    /\ b_inclusive = TRUE
    /\ b_out = [kind |-> "pending", result |-> << >>, requests |-> 0, pages |-> << >>]
    /\ holidays = [d \in Days |-> "open"]
    /\ today = MaxDay + 1
    /\ empty_date = -1
    /\ summary = [key \in DataTypes \X Days |-> 0]
    /\ tables = [key \in DataTypes \X Days |-> << >>]
    /\ dm_pc = "idle"
    /\ data_type = "trades"
    /\ date_from = 0
    /\ date_to = 0
    /\ dates_to_fetch = << >>
    /\ trades = << >>
    /\ fetched = << >>
    /\ summary_before = summary
    /\ insert_failed = -1
    /\ returned = [kind |-> "pending", rows |-> << >>]
    /\ cal_holidays \in { {} } \union
          { {[exchange |-> ticker_exchange, date |-> 0, hours |-> h]} :
              h \in {"closed", "half"} }
    /\ cal_now \in {0, 2}
    /\ cal_pc = "idle"
    /\ cal_from = 0
    /\ cal_to = 0
    /\ exclude_future = TRUE
    /\ open_dates = << >>
    /\ lru = EmptyLru
    /\ c_stored = {}
    /\ c_last = [fn |-> "none"]
    /\ f_pc = "idle"
    /\ save_to_db = TRUE
    /\ dates_to_generate = << >>
    /\ f_todo = << >>
    /\ dfs = << >>
    /\ generated_features = << >>
    /\ feature_values_summary = {}
    /\ feature_values = {}
    /\ f_bad = {}
    /\ f_wrote = {}
    /\ fit_pc = "idle"
    /\ skip_existing = TRUE
    /\ iteration = 0
    /\ Xy = "None"
    /\ files = {}
    /\ get_Xy_calls = 0
    /\ fitted = {}
    /\ files_before = {}
    /\ tickers = [t \in {"AAPL", "MSFT"} |-> << >>]
    /\ tk_cache = [t \in {"AAPL", "MSFT"} |-> "absent"]
    /\ tk_fetches = [t \in {"AAPL", "MSFT"} |-> 0]
    /\ tk_last = [ticker |-> "none", outcome |-> "none", value |-> "none"]
    /\ connection = "None"
    /\ cursor = [state |-> "None", options |-> {}]
    /\ cursor_kwargs = {}
    /\ db_pc = "idle"
    /\ db_op = "none"
    /\ db_ended = "none"
    /\ server_up = TRUE
    /\ n_ops = 0

SpecCache == InitCache /\ [][NextCache]_vars

\* SpecFeatures: no feature is stored and no call is running; every date of
\* FeatDays is past and open
InitFeatures ==
    /\ now = 0
    /\ recent_requests = << >>
    /\ sent = << >>
    /\ pc = "idle"
    /\ attempts_left = 0
    /\ n_sent = 0
    /\ admit_from = 0
    /\ stalls = 0
    /\ ret = "none"
    /\ resource = "up"
    /\ flaky_fails = 0
    /\ last_response = NoResponse
    /\ b_upstream = << >>
    /\ b_limit = 1
    /\ b_fail_at = 0
    /\ b_inclusive = TRUE
    /\ b_out = [kind |-> "pending", result |-> << >>, requests |-> 0, pages |-> << >>]
    /\ holidays = [d \in Days |-> "open"]
    /\ today = MaxDay + 1
    /\ empty_date = -1
    /\ summary = [key \in DataTypes \X Days |-> 0]
    /\ tables = [key \in DataTypes \X Days |-> << >>]
    /\ dm_pc = "idle"
    /\ data_type = "trades"
    /\ date_from = 0
    /\ date_to = 0
    /\ dates_to_fetch = << >>
    /\ trades = << >>
    /\ fetched = << >>
    /\ summary_before = summary
    /\ insert_failed = -1
    /\ returned = [kind |-> "pending", rows |-> << >>]
    /\ cal_holidays = {}
    /\ cal_now = 2 * (MaxFeatDay + 1)
    /\ cal_pc = "idle"
    /\ cal_from = 0
    /\ cal_to = 0
    /\ exclude_future = TRUE
    /\ open_dates = << >>
    /\ lru = EmptyLru
    /\ c_stored = {}
    /\ c_last = [fn |-> "none"]
    /\ f_pc = "idle"
    /\ save_to_db = TRUE
    /\ dates_to_generate = << >>
    /\ f_todo = << >>
    /\ dfs = << >>
    /\ generated_features = << >>
    /\ feature_values_summary = {}
    /\ feature_values = {}
    /\ f_bad = {}
    /\ f_wrote = {}
    /\ fit_pc = "idle"
    /\ skip_existing = TRUE
    /\ iteration = 0
    /\ Xy = "None"
    /\ files = {}
    /\ get_Xy_calls = 0
    /\ fitted = {}
    /\ files_before = {}
    /\ tickers = [t \in {"AAPL", "MSFT"} |-> << >>]
    /\ tk_cache = [t \in {"AAPL", "MSFT"} |-> "absent"]
    /\ tk_fetches = [t \in {"AAPL", "MSFT"} |-> 0]
    /\ tk_last = [ticker |-> "none", outcome |-> "none", value |-> "none"]
    /\ connection = "None"
    /\ cursor = [state |-> "None", options |-> {}]
    /\ cursor_kwargs = {}
    /\ db_pc = "idle"
    /\ db_op = "none"
    /\ db_ended = "none"
    /\ server_up = TRUE
    /\ n_ops = 0

SpecFeatures == InitFeatures /\ [][NextFeatures]_vars

\* SpecFit: no call is running; any of the model files may exist in save_dir
InitFit ==
    /\ now = 0
    /\ recent_requests = << >>
    /\ sent = << >>
    /\ pc = "idle"
    /\ attempts_left = 0
    /\ n_sent = 0
    /\ admit_from = 0
    /\ stalls = 0
    /\ ret = "none"
    /\ resource = "up"
    /\ flaky_fails = 0
    /\ last_response = NoResponse
    /\ b_upstream = << >>
    /\ b_limit = 1
    /\ b_fail_at = 0
    /\ b_inclusive = TRUE
    /\ b_out = [kind |-> "pending", result |-> << >>, requests |-> 0, pages |-> << >>]
    /\ holidays = [d \in Days |-> "open"]
    /\ today = MaxDay + 1
    /\ empty_date = -1
    /\ summary = [key \in DataTypes \X Days |-> 0]
    /\ tables = [key \in DataTypes \X Days |-> << >>]
    /\ dm_pc = "idle"
    /\ data_type = "trades"
    /\ date_from = 0
    /\ date_to = 0
    /\ dates_to_fetch = << >>
    /\ trades = << >>
    /\ fetched = << >>
    /\ summary_before = summary
    /\ insert_failed = -1
    /\ returned = [kind |-> "pending", rows |-> << >>]
    /\ cal_holidays = {}
    /\ cal_now = 0
    /\ cal_pc = "idle"
    /\ cal_from = 0
    /\ cal_to = 0
    /\ exclude_future = TRUE
    /\ open_dates = << >>
    /\ lru = EmptyLru
    /\ c_stored = {}
    /\ c_last = [fn |-> "none"]
    /\ f_pc = "idle"
    /\ save_to_db = TRUE
    /\ dates_to_generate = << >>
    /\ f_todo = << >>
    /\ dfs = << >>
    /\ generated_features = << >>
    /\ feature_values_summary = {}
    /\ feature_values = {}
    /\ f_bad = {}
    /\ f_wrote = {}
    /\ fit_pc = "idle"
    /\ skip_existing = TRUE
    /\ iteration = 0
    /\ Xy = "None"
    /\ files \in SUBSET ModelPaths
    /\ get_Xy_calls = 0
    /\ fitted = {}
    /\ files_before = files
    /\ tickers = [t \in {"AAPL", "MSFT"} |-> << >>]
    /\ tk_cache = [t \in {"AAPL", "MSFT"} |-> "absent"]
    /\ tk_fetches = [t \in {"AAPL", "MSFT"} |-> 0]
    /\ tk_last = [ticker |-> "none", outcome |-> "none", value |-> "none"]
    /\ connection = "None"
    /\ cursor = [state |-> "None", options |-> {}]
    /\ cursor_kwargs = {}
    /\ db_pc = "idle"
    /\ db_op = "none"
    /\ db_ended = "none"
    /\ server_up = TRUE
    /\ n_ops = 0

SpecFit == InitFit /\ [][NextFit]_vars

\* SpecTickers: an empty tickers table and an empty cache
InitTickers ==
    /\ now = 0
    /\ recent_requests = << >>
    /\ sent = << >>
    /\ pc = "idle"
    /\ attempts_left = 0
    /\ n_sent = 0
    /\ admit_from = 0
    /\ stalls = 0
    /\ ret = "none"
    /\ resource = "up"
    /\ flaky_fails = 0
    /\ last_response = NoResponse
    /\ b_upstream = << >>
    /\ b_limit = 1
    /\ b_fail_at = 0
    /\ b_inclusive = TRUE
    /\ b_out = [kind |-> "pending", result |-> << >>, requests |-> 0, pages |-> << >>]
    /\ holidays = [d \in Days |-> "open"]
    /\ today = MaxDay + 1
    /\ empty_date = -1
    /\ summary = [key \in DataTypes \X Days |-> 0]
    /\ tables = [key \in DataTypes \X Days |-> << >>]
    /\ dm_pc = "idle"
    /\ data_type = "trades"
    /\ date_from = 0
    /\ date_to = 0
    /\ dates_to_fetch = << >>
    /\ trades = << >>
    /\ fetched = << >>
    /\ summary_before = summary
    /\ insert_failed = -1
    /\ returned = [kind |-> "pending", rows |-> << >>]
    /\ cal_holidays = {}
    /\ cal_now = 0
    /\ cal_pc = "idle"
    /\ cal_from = 0
    /\ cal_to = 0
    /\ exclude_future = TRUE
    /\ open_dates = << >>
    /\ lru = EmptyLru
    /\ c_stored = {}
    /\ c_last = [fn |-> "none"]
    /\ f_pc = "idle"
    /\ save_to_db = TRUE
    /\ dates_to_generate = << >>
    /\ f_todo = << >>
    /\ dfs = << >>
    /\ generated_features = << >>
    /\ feature_values_summary = {}
    /\ feature_values = {}
    /\ f_bad = {}
    /\ f_wrote = {}
    /\ fit_pc = "idle"
    /\ skip_existing = TRUE
    /\ iteration = 0
    /\ Xy = "None"
    /\ files = {}
    /\ get_Xy_calls = 0
    /\ fitted = {}
    /\ files_before = {}
    /\ tickers = [t \in {"AAPL", "MSFT"} |-> << >>]
    /\ tk_cache = [t \in {"AAPL", "MSFT"} |-> "absent"]
    /\ tk_fetches = [t \in {"AAPL", "MSFT"} |-> 0]
    /\ tk_last = [ticker |-> "none", outcome |-> "none", value |-> "none"]
    /\ connection = "None"
    /\ cursor = [state |-> "None", options |-> {}]
    /\ cursor_kwargs = {}
    /\ db_pc = "idle"
    /\ db_op = "none"
    /\ db_ended = "none"
    /\ server_up = TRUE
    /\ n_ops = 0

SpecTickers == InitTickers /\ [][NextTickers]_vars

\* SpecConn: a Database just constructed, no operation running
InitConn ==
    /\ now = 0
    /\ recent_requests = << >>
    /\ sent = << >>
    /\ pc = "idle"
    /\ attempts_left = 0
    /\ n_sent = 0
    /\ admit_from = 0
    /\ stalls = 0
    /\ ret = "none"
    /\ resource = "up"
    /\ flaky_fails = 0
    /\ last_response = NoResponse
    /\ b_upstream = << >>
    /\ b_limit = 1
    /\ b_fail_at = 0
    /\ b_inclusive = TRUE
    /\ b_out = [kind |-> "pending", result |-> << >>, requests |-> 0, pages |-> << >>]
    /\ holidays = [d \in Days |-> "open"]
    /\ today = MaxDay + 1
    /\ empty_date = -1
    /\ summary = [key \in DataTypes \X Days |-> 0]
    /\ tables = [key \in DataTypes \X Days |-> << >>]
    /\ dm_pc = "idle"
    /\ data_type = "trades"
    /\ date_from = 0
    /\ date_to = 0
    /\ dates_to_fetch = << >>
    /\ trades = << >>
    /\ fetched = << >>
    /\ summary_before = summary
    /\ insert_failed = -1
    /\ returned = [kind |-> "pending", rows |-> << >>]
    /\ cal_holidays = {}
    /\ cal_now = 0
    /\ cal_pc = "idle"
    /\ cal_from = 0
    /\ cal_to = 0
    /\ exclude_future = TRUE
    /\ open_dates = << >>
    /\ lru = EmptyLru
    /\ c_stored = {}
    /\ c_last = [fn |-> "none"]
    /\ f_pc = "idle"
    /\ save_to_db = TRUE
    /\ dates_to_generate = << >>
    /\ f_todo = << >>
    /\ dfs = << >>
    /\ generated_features = << >>
    /\ feature_values_summary = {}
    /\ feature_values = {}
    /\ f_bad = {}
    /\ f_wrote = {}
    /\ fit_pc = "idle"
    /\ skip_existing = TRUE
    /\ iteration = 0
    /\ Xy = "None"
    /\ files = {}
    /\ get_Xy_calls = 0
    /\ fitted = {}
    /\ files_before = {}
    /\ tickers = [t \in {"AAPL", "MSFT"} |-> << >>]
    /\ tk_cache = [t \in {"AAPL", "MSFT"} |-> "absent"]
    /\ tk_fetches = [t \in {"AAPL", "MSFT"} |-> 0]
    /\ tk_last = [ticker |-> "none", outcome |-> "none", value |-> "none"]
    /\ connection = "None"
    /\ cursor = [state |-> "None", options |-> {}]
    /\ cursor_kwargs = {}
    /\ db_pc = "idle"
    /\ db_op = "none"
    /\ db_ended = "none"
    /\ server_up = TRUE
    /\ n_ops = 0

SpecConn == InitConn /\ [][NextConn]_vars

\* ------------------------------------------------------------------------
\* Claims about APIManager._request (checked under SpecAPI)
\* ------------------------------------------------------------------------

\* C4: no more than MAX_REQUEST_PER_MINUTE requests are sent within any trailing
\* 60-second window: a request is sent only when fewer than 200 requests were
\* sent in the 60 seconds before it, so of any 201 consecutive requests the
\* last is sent at least 60 seconds after the first.
C4_RateLimitRespected ==
    \A i \in 1..Len(sent) :
        i > MAX_REQUEST_PER_MINUTE =>
            sent[i] - sent[i - MAX_REQUEST_PER_MINUTE] >= WINDOW

\* C19: once the stall loop has admitted a request and it is sent, the pruned
\* request window holds exactly the times of the requests sent during the last
\* 60 seconds, the request just sent among them.
C19_WindowHoldsSentRequests ==
    pc = "response" =>
        count_recent_requests(recent_requests, now) = count_recent_requests(sent, now)

\* the responses the claim calls a success: status 200 with a list body, or
\* with an object whose success field is absent or true
Returnable(r) ==
    /\ r.status_code = 200
    /\ r.type = "list" \/ (r.type = "dict" /\ r.success \in {"absent", "true"})

\* C20: a response with status 200 and a list body, or an object body whose
\* success field is absent or true, is returned at once, with no further
\* request; any other response (another status, or 200 with success false) is
\* not returned: it takes one attempt, followed by a retry with one attempt
\* less, or by the return of None when no attempt is left.
C20_ResponseClassified ==
    [][pc = "response" =>
          IF Returnable(last_response)
          THEN ret' = "json" /\ pc' = "idle" /\ sent' = sent
          ELSE /\ ret' # "json"
               /\ IF attempts_left > 0
                  THEN pc' = "admit" /\ attempts_left' = attempts_left - 1
                  ELSE pc' = "idle" /\ ret' = "None"]_vars

\* C20 witness: a call whose first response was a failure used one attempt,
\* sent the request again and returned the body of the second response at once
C20_Witness ==
    /\ pc = "idle"
    /\ ret = "json"
    /\ n_sent = 2
    /\ attempts_left = default_attempts_left - 1

\* C21: every request sent, a retry and a page request included, comes out of
\* its own pass through the stall loop: the pass began when the request's
\* _request call was entered, not before the request sent before it, it ended
\* with the window below the limit at the moment of sending, and a retry is
\* sent no sooner than RETRY_DELAY seconds after the failed request.
C21_OwnPassThenSend ==
    pc = "response" =>
        /\ admit_from + stalls * STALL_TIME_UPON_MAX_REQUESTS = sent[Len(sent)]
        /\ Len(recent_requests) < MAX_REQUEST_PER_MINUTE
        /\ \A k \in 1..Len(recent_requests) : sent[Len(sent)] - recent_requests[k] < WINDOW
        /\ Len(sent) >= 2 => admit_from >= sent[Len(sent) - 1]
        /\ n_sent >= 2 => /\ admit_from >= sent[Len(sent) - 1] + RETRY_DELAY
                          /\ sent[Len(sent)] - sent[Len(sent) - 1] >= RETRY_DELAY

\* C21 witness: a retry was sent, RETRY_DELAY seconds after the failed request
C21_Witness ==
    /\ pc = "response"
    /\ n_sent >= 2
    /\ sent[Len(sent)] = sent[Len(sent) - 1] + RETRY_DELAY
    /\ admit_from = sent[Len(sent)]

\* C5: when the request just sent is the last of MAX_REQUEST_PER_MINUTE + 1
\* requests issued within one window (its pass through the stall loop began
\* less than 60 seconds after the first of them was sent), the stall loop slept
\* at least once before it was sent.
C5_StallBeforeLastOfBurst ==
    ( /\ pc = "response"
      /\ Len(sent) > MAX_REQUEST_PER_MINUTE
      /\ admit_from - sent[Len(sent) - MAX_REQUEST_PER_MINUTE] < WINDOW )
    => stalls >= 1

\* C6: a top-level _request call to a resource whose every response fails sends
\* exactly MAX_ATTEMPTS requests and then returns None; it never sends more.
C6_RetryBound ==
    resource = "down" =>
        /\ n_sent <= MAX_ATTEMPTS
        /\ ret # "json"
        /\ (pc = "idle" /\ ret # "none") => (ret = "None" /\ n_sent = MAX_ATTEMPTS)

\* C6 witness: a call to a failing resource has returned None after its fifth request
C6_Witness ==
    /\ resource = "down"
    /\ pc = "idle"
    /\ ret = "None"
    /\ n_sent = MAX_ATTEMPTS
    /\ Len(sent) >= MAX_ATTEMPTS

\* ------------------------------------------------------------------------
\* Claims about APIManager._request_batch (checked under SpecBatch)
\* ------------------------------------------------------------------------

\* the call was made
BatchDone == b_out.kind # "pending"

\* the page request that ends in failure is one the call makes: with no
\* failure at all the call makes at least that many requests
PageFailed ==
    /\ b_fail_at >= 1
    /\ request_batch(b_upstream, b_limit, 0, 0, b_inclusive, 1).requests >= b_fail_at

\* C7: when the request for any page, the first or a later one, ends in
\* terminal failure, the _request_batch call yields the failure value None to
\* its caller, and no records.
C7_PageFailureYieldsNone ==
    (BatchDone /\ PageFailed) =>
        (b_out.kind = "None" /\ b_out.result = << >>)

\* C8: for a resource of exactly `limit` records whose second page holds no
\* further record, _request_batch issues exactly 2 requests and returns exactly
\* the `limit` records, without raising.
C8_ExactPage ==
    ( /\ BatchDone
      /\ b_fail_at = 0
      /\ Len(b_upstream) = b_limit
      /\ Len(upstream_page(b_upstream, b_upstream[b_limit].t, b_limit, b_inclusive)) <= 1 )
    => ( /\ b_out.kind = "list"
         /\ b_out.requests = 2
         /\ b_out.result = b_upstream )

\* C22: the first record of a page is left out of the result on every page but
\* the first of the batch, and never otherwise: the page asked from cursor 0
\* keeps all its records, every later page gives its records but the first.
C22_FirstDroppedOnLaterPages ==
    BatchDone =>
        \A k \in 1..Len(b_out.pages) :
            /\ (b_out.pages[k].timestamp = 0) <=> (k = 1)
            /\ b_out.pages[k].kept = IF k = 1 THEN b_out.pages[k].results
                                              ELSE Drop(b_out.pages[k].results, 1)

\* C22 witness: a batch returned after a second page of two records, of which
\* only the second went into the result
C22_Witness ==
    /\ b_out.kind = "list"
    /\ Len(b_out.pages) >= 2
    /\ Len(b_out.pages[1].kept) = b_limit
    /\ Len(b_out.pages[2].results) = 2
    /\ Len(b_out.pages[2].kept) = 1

\* the call ended within the depth of recursion followed
Ended == BatchDone /\ b_out.kind # "RecursionError"

\* C23: a page whose results_count is at least limit is followed by one
\* further request, asked from the timestamp of the last record of that page;
\* a page whose results_count is below limit is the last: as many requests
\* are issued as there are pages (one more when the last request fails).
C23_FullPageFollowed ==
    Ended =>
        /\ \A k \in 1..Len(b_out.pages) :
              LET results == b_out.pages[k].results IN
              IF Len(results) >= b_limit
              THEN /\ b_out.requests > k
                   /\ k < Len(b_out.pages) =>
                         b_out.pages[k + 1].timestamp = results[Len(results)].t
              ELSE b_out.requests = k
        /\ b_out.requests = Len(b_out.pages) + (IF b_out.kind \in {"None", "TypeError"} THEN 1 ELSE 0)

\* C27: a successful _request_batch returns every upstream record exactly once
\* and in upstream order, also when records share the timestamp at which a
\* page ends (the cursor taking records from its timestamp on, as the drop of
\* the first record of a later page supposes).
C27_EveryRecordOnce ==
    (b_out.kind = "list" /\ b_inclusive) => b_out.result = b_upstream

\* C28: for a finite resource whose requests all succeed _request_batch ends:
\* each further page is asked from a cursor strictly greater than the cursor
\* of the page before, so the recursion does not go on without end, also when
\* a full page holds records of one timestamp.
C28_CursorAdvances ==
    (BatchDone /\ b_fail_at = 0 /\ b_inclusive) =>
        /\ b_out.kind # "RecursionError"
        /\ \A k \in 1..(Len(b_out.pages) - 1) :
              b_out.pages[k + 1].timestamp > b_out.pages[k].timestamp

\* C9: for a resource with zero records whose request succeeds, _request_batch
\* returns the empty record sequence: a success, no failure and no exception.
C9_EmptyDayIsValid ==
    (BatchDone /\ b_fail_at = 0 /\ b_upstream = << >>) =>
        (b_out.kind = "list" /\ b_out.result = << >>)

\* ------------------------------------------------------------------------
\* Claims about the store and download_trades (checked under Spec)
\* ------------------------------------------------------------------------

\* what Database.get_trades returns for a date whose every upstream record is stored
FullDay(date) ==
    [k \in 1..Len(upstream_records(date)) |->
        [time |-> <<"America/New_York", upstream_records(date)[k].t>>,
         price |-> upstream_records(date)[k].i]]

Present(type, date) == summary[<<type, date>>] > 0

\* C1: in every reachable state, the states between the statements of
\* store_trades and those left by a failure included, a presence row for
\* (kind, ticker, date) exists only if all tick rows fetched for the date are
\* written.
C1_PresenceOnlyAfterTicks ==
    \A type \in DataTypes, d \in Days :
        Present(type, d) => db_get_trades(d, type) = FullDay(d)

\* C2: after any sequence of calls, successful or failed, a presence row
\* (kind, ticker, D) exists if and only if Database.get_trades returns the full
\* record set upstream holds for D (the converse being asked of the dates for
\* which upstream holds a record).
C2_PresenceIffComplete ==
    dm_pc \in {"idle", "returned", "raised"} =>
        \A d \in Days :
            /\ Present(data_type, d) => db_get_trades(d, data_type) = FullDay(d)
            /\ (db_get_trades(d, data_type) = FullDay(d) /\ FullDay(d) # << >>)
                   => Present(data_type, d)

\* C3: when the tick-row insert of store_trades failed for date D, the error
\* reached the caller and no summary row for D exists, so that D is still
\* reported missing.
C3_FailedInsertNotPresent ==
    insert_failed # -1 =>
        /\ dm_pc = "raised"
        /\ ~Present(data_type, insert_failed)
        /\ insert_failed \in
              Range(dates_missing_from_database(insert_failed, insert_failed, data_type))

\* the dates download_trades has to fetch: the open dates of the range with
\* no presence row when the call began, ascending
ExpectedMissing ==
    SortedSeq({ d \in Range(get_open_dates(date_from, date_to)) :
                  summary_before[<<data_type, d>>] = 0 })

\* presence rows of a date created since the call began
NewRows(type, date) == summary[<<type, date>>] - summary_before[<<type, date>>]

OnePresenceRowPerFetchedDate ==
    \A type \in DataTypes, d \in Days :
        NewRows(type, d) =
            IF type = data_type /\ d \in Range(fetched) THEN 1 ELSE 0

DownloadReturned == dm_pc \in {"read", "returned"}

DownloadEnded == DownloadReturned \/ dm_pc = "raised"

\* C10 as stated: whenever a download_trades call has ended, get_daily_trades
\* was called exactly once for each date of (open dates minus stored dates),
\* in ascending order, and one presence row was created per fetched date.
C10_Original ==
    DownloadEnded => (fetched = ExpectedMissing /\ OnePresenceRowPerFetchedDate)

\* C10 amended: a download_trades call that returns normally has called
\* get_daily_trades exactly once for each date of (open dates minus stored
\* dates), for no other date, in ascending order, and has created exactly one
\* presence row per fetched date; a call that is running or was aborted has
\* fetched an initial part of that list and created at most one presence row
\* per date, for fetched dates only.
C10_GapDiff ==
    dm_pc # "idle" =>
        /\ Len(fetched) <= Len(ExpectedMissing)
        /\ fetched = SubSeq(ExpectedMissing, 1, Len(fetched))
        /\ \A type \in DataTypes, d \in Days :
              /\ NewRows(type, d) \in {0, 1}
              /\ NewRows(type, d) = 1 => (type = data_type /\ d \in Range(fetched))
        /\ DownloadReturned =>
              (fetched = ExpectedMissing /\ OnePresenceRowPerFetchedDate)

\* C10 witness: download_trades returned after fetching dates on both sides of
\* a date that was stored before
C10_Witness ==
    /\ dm_pc = "read"
    /\ Len(fetched) >= 2
    /\ \E d \in Range(get_open_dates(date_from, date_to)) :
          /\ summary_before[<<data_type, d>>] = 1
          /\ fetched[1] < d
          /\ d < fetched[Len(fetched)]
    /\ OnePresenceRowPerFetchedDate

\* ------------------------------------------------------------------------
\* Claims about get_trades and download_trades as a whole (checked under Spec)
\* ------------------------------------------------------------------------

\* a call is running (or has just ended) that began when every open date of
\* its range had a presence row
NothingMissingAtCall == dm_pc # "idle" /\ ExpectedMissing = << >>

\* C11: a get_trades / download_trades call that begins when every open date of
\* its range has a presence row (the second of two equal calls, say) calls
\* get_daily_trades for no date, so issues no upstream request, and no step of
\* it writes a summary row or a tick row: it goes straight to the read.
C11_Idempotent ==
    [][ NothingMissingAtCall =>
          /\ UNCHANGED <<summary, tables>>
          /\ fetched = << >>
          /\ fetched' = << >>
          /\ dm_pc' \in {"read", "returned", "idle"} ]_vars

\* C11 witness: a call over a range with open dates, all stored by earlier
\* calls, has returned without a fetch
C11_Witness ==
    /\ dm_pc = "returned"
    /\ ExpectedMissing = << >>
    /\ Len(get_open_dates(date_from, date_to)) >= 2
    /\ fetched = << >>
    /\ summary = summary_before

\* the date at which the running call was aborted: the last one handed to
\* get_daily_trades
FailedDate == fetched[Len(fetched)]

\* what an aborted call leaves: the failed date D is the one the loop was at,
\* no date after D was fetched or got a presence row in the call, nothing was
\* returned, and the presence rows of the dates before D are all there (one
\* more for each date the call fetched before D, those of earlier calls as
\* they were)
Aborted ==
    /\ fetched # << >>
    /\ dates_to_fetch # << >>
    /\ FailedDate = Head(dates_to_fetch)
    /\ returned = [kind |-> "pending", rows |-> << >>]
    /\ \A k \in 1..Len(fetched) : fetched[k] <= FailedDate
    /\ \A d \in Days :
          /\ d > FailedDate => (NewRows(data_type, d) = 0 /\ d \notin Range(fetched))
          /\ d < FailedDate =>
                NewRows(data_type, d) = IF d \in Range(fetched) THEN 1 ELSE 0

\* C12: when the fetch or the store of date D fails in download_trades, the
\* call is aborted with an exception that reaches the caller of get_trades: no
\* date later than D is fetched or stored in the call, get_trades returns no
\* result, and the presence rows of the dates before D, of this call and of
\* earlier ones, stay as they are, also while the exception unwinds.
C12_AbortOnFailure ==
    [][ /\ dm_pc' = "raised" => Aborted'
        /\ dm_pc = "raised" =>
              (UNCHANGED <<summary, tables>> /\ dm_pc' = "idle" /\ returned' = [kind |-> "pending", rows |-> << >>]) ]_vars

\* C12 witness: a call was aborted at a date D after it stored an earlier date,
\* with a date stored by an earlier call before D and an open date after D
C12_Witness ==
    /\ dm_pc = "raised"
    /\ Aborted
    /\ Len(fetched) >= 2
    /\ \E d \in Days : d < FailedDate /\ summary_before[<<data_type, d>>] = 1
    /\ \E d \in Range(get_open_dates(date_from, date_to)) : d > FailedDate

\* the open dates of the range of the running call, as a set
OpenInRange ==
    { d \in date_from..date_to :
        d % 7 < 5 /\ holidays[d] # "closed" /\ today - d > 0 }

cal_today == cal_now \div 2

ClosedHoliday(d) ==
    [exchange |-> ticker_exchange, date |-> d, hours |-> "closed"] \in cal_holidays

HalfHoliday(d) ==
    [exchange |-> ticker_exchange, date |-> d, hours |-> "half"] \in cal_holidays

UncachedValue ==
    CASE c_last.fn = "exchange_for_ticker" ->
            lru_exchange_for_ticker(EmptyLru, c_stored).value
      [] c_last.fn = "get_open_dates" ->
            lru_get_open_dates(EmptyLru, c_stored, c_last.args[1], c_last.args[2]).value
      [] c_last.fn = "get_trading_hours" ->
            lru_get_trading_hours(EmptyLru, c_stored, c_last.args[1]).value
      [] c_last.fn = "get_trades" ->
            lru_get_trades(EmptyLru, c_stored, c_last.args[1], c_last.args[2]).value
      [] c_last.fn = "get_quotes" ->
            lru_get_quotes(EmptyLru, c_stored, c_last.args[1]).value
      [] c_last.fn = "get_bars" ->
            lru_get_bars(EmptyLru, c_stored, c_last.args[1], c_last.args[2]).value

\* C15: caching is transparent: whatever calls of the memoized accessors,
\* store writes, days gone by and evictions came before, each call of a
\* memoized accessor returns the value an uncached evaluation against the
\* current store and clock returns.
C15_CachingTransparent ==
    c_last.fn # "none" => c_last.value = UncachedValue

\* C29: the value the get_trades cache holds for given arguments is never
\* altered once stored: no call of get_quotes, get_bars or any other accessor
\* changes the columns or rows a later cache hit of get_trades returns.
C29_CachedTradesUnaltered ==
    [][\A k \in CacheDays \X DataTypes :
          (lru.get_trades[k].kind = "value" /\ lru'.get_trades[k].kind = "value")
              => lru'.get_trades[k] = lru.get_trades[k]]_vars

\* the rows of the full record sets upstream holds for a list of dates
RECURSIVE FullRange(_)
FullRange(dates) ==
    IF dates = << >> THEN << >>
    ELSE FullDay(Head(dates)) \o FullRange(Tail(dates))

\* C16: repeating get_trades(ticker, from, to, kind) after earlier failed or
\* interrupted attempts ends in a call that returns the full range: when a
\* call returns a frame, every open date of the range has a presence row and
\* all its tick rows, and the frame holds the full record set of each open date.
C16_EventuallyComplete ==
    (dm_pc = "returned" /\ returned.kind = "frame") =>
        /\ \A d \in OpenInRange :
              Present(data_type, d) /\ db_get_trades(d, data_type) = FullDay(d)
        /\ returned.rows = FullRange(SortedSeq(OpenInRange))

\* ------------------------------------------------------------------------
\* Claims about FeatureManager.generate (checked under SpecFeatures)
\* ------------------------------------------------------------------------

\* C17: when a feature frame generated for a date holds a NaN or an infinite
\* value, the assertion fails before anything is stored for that date: the
\* call is aborted, and it has written no feature values and no
\* feature_values_summary row for that date, for that feature or for any other.
C17_NothingStoredForBadDate ==
    \A b \in f_bad :
        /\ f_pc = "raised"
        /\ \A t \in {"feature_values_summary", "feature_values"}, k \in 1..Len(FeatureNames) :
              <<t, FeatureNames[k], b[2]>> \notin f_wrote

\* C17 witness: the second feature of the second date of a call failed the
\* assertion, after the first date was stored
C17_Witness ==
    /\ f_pc = "raised"
    /\ f_bad # {}
    /\ dfs # << >>
    /\ f_wrote # {}
    /\ C17_NothingStoredForBadDate

\* C24: a feature_values_summary row (feature, date) is written only after the
\* feature values of that date are stored: at every moment, also after a
\* failure while the values are stored, each presence row has its values.
C24_FeaturePresenceAfterValues ==
    \A row \in feature_values_summary : row \in feature_values

\* C30: the dates dates_missing_from_database reports for a feature name F
\* depend on the presence rows of F only: they are the open dates of the
\* range without a presence row of F, whatever is stored for another feature
\* whose name begins with F.
C30_MissingByOwnRows ==
    \A k \in 1..Len(FeatureNames), from \in FeatDays, to \in FeatDays :
        Range(dates_missing_for_feature(from, to, FeatureNames[k])) =
            { d \in Range(open_dates_of(cal_holidays, cal_now, from, to, TRUE)) :
                  <<FeatureNames[k], d>> \notin feature_values_summary }

\* ------------------------------------------------------------------------
\* Claims about fit_multiple_parameters (checked under SpecFit)
\* ------------------------------------------------------------------------

\* C18: in a call of fit_multiple_parameters, get_Xy is called at most once,
\* and not at all when skip_existing is true and a model file existed for
\* every parameter set when the call began; with skip_existing true, no
\* parameter set whose model file existed is refitted or its file overwritten.
C18_DataFetchedOnce ==
    /\ get_Xy_calls <= 1
    /\ skip_existing =>
          /\ fitted \intersect files_before = {}
          /\ files_before = ModelPaths => (get_Xy_calls = 0 /\ fitted = {})

\* C18 witness: a call with skip_existing that found one model file fitted the
\* two other parameter sets on one get_Xy call and returned
C18_Witness ==
    /\ fit_pc = "done"
    /\ skip_existing
    /\ Cardinality(files_before) = 1
    /\ Cardinality(fitted) = MaxParams - 1
    /\ get_Xy_calls = 1

\* ------------------------------------------------------------------------
\* Claims about exchange_for_ticker (checked under SpecTickers)
\* ------------------------------------------------------------------------

\* C25: over any sequence of exchange_for_ticker calls a symbol gets at most
\* one ticker row, created by the first metadata fetch that answers, and the
\* row never changes afterwards; a call whose metadata fetch fails writes no
\* row and caches nothing, and a call that finds neither cache entry nor row
\* fetches again.
C25_TickerRowOnce ==
    [][\A t \in Symbols :
          /\ Len(tickers'[t]) <= 1
          /\ tickers[t] # << >> => tickers'[t] = tickers[t]
          /\ tickers'[t] # tickers[t] => tk_fetches'[t] = tk_fetches[t] + 1
          /\ (tk_last'.ticker = t /\ tk_last'.outcome = "raised") =>
                /\ tickers'[t] = << >>
                /\ tk_cache'[t] = "absent"
                /\ tk_fetches'[t] = tk_fetches[t] + 1
          /\ (tk_last'.ticker = t /\ tk_last'.outcome \in {"cached", "stored"}) =>
                /\ tk_fetches'[t] = tk_fetches[t]
                /\ tickers[t] # << >>]_vars

\* C25 witness: the first fetch for a ticker failed, the second one created
\* its row, and after a restart the row was found and no third fetch made
C25_Witness ==
    \E t \in Symbols :
        /\ tk_fetches[t] = 2
        /\ Len(tickers[t]) = 1
        /\ tk_last = [ticker |-> t, outcome |-> "stored", value |-> tickers[t][1]]

\* ------------------------------------------------------------------------
\* Claims about the Database context manager (checked under SpecConn)
\* ------------------------------------------------------------------------

\* C26: after every Database operation, returned or raised, a failure to open
\* the connection included, connection and cursor are released and the cursor
\* options set through __call__ are cleared; so the cursor of an operation has
\* the options that operation asked for, never those of an earlier one.
C26_ReleasedAndCleared ==
    /\ db_pc = "idle" =>
          /\ connection = "None"
          /\ cursor = NoCursor
          /\ cursor_kwargs = {}
    /\ db_pc = "body" => cursor = [state |-> "open", options |-> options_of(db_op)]

====
